---- MODULE Spec2Model ----
(***************************************************************************)
(* Adaptive retrieval router of the document Q&A backend:                  *)
(*   - hybrid search fusion (RRF) and grouping by document                 *)
(*       backend/search/multi_document_search.py, backend/agent/short_path.py *)
(*   - context truncation        backend/agent/token_manager.py            *)
(*   - probe -> score -> route -> SHORT -> escalation -> LONG              *)
(*       backend/agent/smart_orchestrator.py, backend/agent/smart_probe.py *)
(*                                                                         *)
(* Numbers.  The code computes with Python floats.  The model uses exact   *)
(* integer arithmetic on scaled values: router weights and the RRF weights *)
(* are in tenths, probe signals in hundredths, the routing score and the   *)
(* threshold in thousandths; an RRF score is the exact fraction num/den in *)
(* tenths.  Strings are modelled by what the code reads of them: their     *)
(* length, their provenance (which segment, how many characters kept), and *)
(* for a context text its lines and its words.                             *)
(***************************************************************************)
EXTENDS Integers, Sequences, FiniteSets, TLC

VARIABLES
    \* ---- hybrid search: _hybrid_rerank / _group_results_by_document ----
    fpc,               \* "input" | "fused" | "grouped" | "idle"
    mode,              \* "multi" (multi_document_search) | "short" (short_path)
    vector_results,    \* vector hits, best first: sequence of segment ids
    text_results,      \* text hits, best first: sequence of segment ids
    vector_weight,     \* in tenths
    text_weight,       \* in tenths
    combined_results,  \* fused results, sequence of FusedResult records
    max_docs,          \* cap on blocks       (max_docs / short_top_docs)
    max_snippets,      \* cap on snippets     (max_snippets_per_doc / short_per_doc)
    blocks,            \* grouped ContextBlocks
    \* ---- token manager: truncate_context_by_tokens ----
    tpc,               \* "input" | "once" | "twice" | "idle"
    max_context_chars, \* config.max_context_chars
    context,           \* the ContextBundle handed to the truncation
    truncated,         \* truncate_context_by_tokens(context, config)
    retruncated,       \* truncate_context_by_tokens(truncated, config)
    \* ---- smart orchestrator: smart_handle_message ----
    pc,                \* "start" | "probed" | "scored" | "short" | "escalation"
                       \*   | "long" | "done" | "idle"
    config,            \* SmartRoutingConfig: router and escalation
    signals,           \* ProbeSignals of the query
    score,             \* routing score, in thousandths
    path,              \* "SHORT" | "LONG" | "none"
    fault,             \* the sub-step of run_short_path that raised, or "none"
    short_result,      \* ShortPathResult
    long_result,       \* LongPathResult
    escalate,          \* what should_escalate_from_short returned
    calls,             \* the calls smart_handle_message has made, in order
    answer,            \* the string smart_handle_message returns
    document_id,       \* the document the request is scoped to, or None
    retrievals,        \* the retrievals of the paths, each with its document scope
    \* ---- token manager: validate_response_length ----
    rpc,               \* "input" | "validated" | "idle"
    response,          \* the generated response text
    max_response_tokens, \* config.max_response_tokens
    validated,         \* validate_response_length(response, config)
    \* ---- token manager: ensure_json_validity ----
    jpc,               \* "input" | "returned" | "raised" | "idle"
    json_str,          \* the string handed to ensure_json_validity
    repaired,          \* what ensure_json_validity returned
    \* ---- short path: build_context_short_path ----
    gpc,               \* "start" | "embedded" | "gathering" | "gathered"
                       \*   | "returned" | "raised" | "idle"
    store,             \* what the embedding service and the store answer
    tasks,             \* state of vector_task and text_task
    finished,          \* the tasks in the order they finished
    gathered,          \* what asyncio.gather returned
    final_results,     \* _hybrid_rerank_optimized(vector_results, text_results, alpha)
    context_blocks,    \* blocks of the ContextBundle returned
    \* ---- streaming orchestrator: stream_smart_orchestration ----
    spc,               \* "start" | "short_stream" | "short_run" | "short_decide"
                       \*   | "long_plan" | "long_loop" | "long_synth" | "done" | "idle"
    s_signals,         \* signals = compute_probe_signals(query, config)
    s_path,            \* "SHORT" | "LONG" | "none"
    s_short_result,    \* short_result = await run_short_path(...)
    s_escalate,        \* what _should_escalate_from_short returned
    events,            \* types of the events yielded so far
    work,              \* searches and LLM calls the SHORT path has issued
    lp,                \* progress of _stream_long_path_execution
    s_response,        \* the response event: the answer, the token limit, the payload
    \* ---- store: PostgresClient.execute_statement under the retry decorator ----
    dpc,               \* "call" | "attempting" | "returned" | "raised" | "converted" | "idle"
    attempt,           \* attempt of the retry loop
    requests,          \* rds_client.execute_statement requests issued
    outcomes,          \* what the store does on each request
    last_exception,    \* the exception the wrapped function raised last
    delays,            \* time.sleep(delay) calls of the retry loop
    search_result,     \* what the path executor made of the search
    \* ---- token manager: _smart_truncate ----
    cpc,               \* "input" | "cut" | "idle"
    cut_text,          \* the hard-cut text handed to _smart_truncate
    cut_result,        \* _smart_truncate(cut_text)
    \* ---- smart probe: compute_probe_signals ----
    qpc,               \* "start" | "probed" | "routed" | "idle"
    probe_config,      \* probe_candidates_per_type
    probe_query,       \* what the patterns find in the query text
    probe_store,       \* what the store answers: documents and candidates
    probe_signals,     \* the ProbeSignals returned
    probe_path,        \* "SHORT" | "LONG" | "none"
    \* ---- single document: map_reduce_single_document ----
    mpc,               \* "start" | "map" | "reduce" | "done" | "idle"
    all_segments,      \* segment ordinals of the document, in ordinal order
    chunk_size,        \* segments per map operation
    chunks,            \* _chunk_segments(all_segments, chunk_size)
    extracted_info,    \* what the map calls returned, in order
    llm_log,           \* the LLM calls made, in order
    relevant_info,     \* the extracts handed to the reduction LLM call
    m_result,          \* "none" | "no_content" | "no_information" | "answer" | "apology"
    \* ---- retry decorator: retry(config) ----
    wpc,               \* "loop" | "returned" | "raised" | "idle"
    max_attempts,      \* config.max_attempts
    w_outcomes,        \* what the wrapped function does on each invocation
    w_attempt,         \* attempt of the loop
    w_log,             \* invocations and sleeps of the wrapper, in order
    w_raised,          \* index of the failure that was re-raised, or 0
    \* ---- CircuitBreaker ----
    cb_config,         \* failure_threshold and recovery_timeout
    cb_state,          \* self.state
    failure_count,     \* self.failure_count
    last_failure_time, \* self.last_failure_time
    now,               \* time.time()
    last_call          \* the last call(): the state it met and what it did

fvars == <<fpc, mode, vector_results, text_results, vector_weight, text_weight,
           combined_results, max_docs, max_snippets, blocks>>

tvars == <<tpc, max_context_chars, context, truncated, retruncated>>

ovars == <<pc, config, signals, score, path, fault, short_result, long_result,
           escalate, calls, answer, document_id, retrievals>>

rvars == <<rpc, response, max_response_tokens, validated>>

jvars == <<jpc, json_str, repaired>>

gvars == <<gpc, store, tasks, finished, gathered, final_results, context_blocks>>

svars == <<spc, s_signals, s_path, s_short_result, s_escalate, events, work, lp,
           s_response>>

dvars == <<dpc, attempt, requests, outcomes, last_exception, delays, search_result>>

cvars == <<cpc, cut_text, cut_result>>

pvars == <<qpc, probe_config, probe_query, probe_store, probe_signals, probe_path>>

mvars == <<mpc, all_segments, chunk_size, chunks, extracted_info, llm_log, relevant_info,
           m_result>>

wvars == <<wpc, max_attempts, w_outcomes, w_attempt, w_log, w_raised>>

bvars == <<cb_config, cb_state, failure_count, last_failure_time, now, last_call>>

zvars == <<cvars, pvars, mvars, wvars, bvars>>

zvars_but_c == <<pvars, mvars, wvars, bvars>>

zvars_but_q == <<cvars, mvars, wvars, bvars>>

zvars_but_m == <<cvars, pvars, wvars, bvars>>

zvars_but_w == <<cvars, pvars, mvars, bvars>>

zvars_but_b == <<cvars, pvars, mvars, wvars>>

\* the subsystems added after the first three, and all of them but one
xvars == <<rvars, jvars, gvars, svars, dvars>>

xvars_but_r == <<jvars, gvars, svars, dvars>>

xvars_but_j == <<rvars, gvars, svars, dvars>>

xvars_but_g == <<rvars, jvars, svars, dvars>>

xvars_but_s == <<rvars, jvars, gvars, dvars>>

xvars_but_d == <<rvars, jvars, gvars, svars>>

vars == <<fvars, tvars, ovars, xvars, zvars>>

\* a subsystem that takes no part in a specification stays idle
FuseIdle ==
    /\ fpc = "idle" /\ mode = "multi"
    /\ vector_results = <<>> /\ text_results = <<>>
    /\ vector_weight = 0 /\ text_weight = 0
    /\ combined_results = <<>> /\ max_docs = 0 /\ max_snippets = 0 /\ blocks = <<>>

TruncIdle ==
    /\ tpc = "idle" /\ max_context_chars = 0
    /\ context = <<>> /\ truncated = <<>> /\ retruncated = <<>>

RespIdle ==
    /\ rpc = "idle" /\ response = <<>> /\ max_response_tokens = 0 /\ validated = <<>>

JsonIdle ==
    /\ jpc = "idle" /\ json_str = <<>> /\ repaired = <<>>

GatherIdle ==
    /\ gpc = "idle" /\ store = <<>> /\ tasks = <<>> /\ finished = <<>>
    /\ gathered = <<>> /\ final_results = <<>> /\ context_blocks = <<>>

StreamIdle ==
    /\ spc = "idle" /\ s_signals = <<>> /\ s_path = "none" /\ s_short_result = <<>>
    /\ s_escalate = FALSE /\ events = <<>> /\ work = <<>> /\ lp = <<>>
    /\ s_response = <<>>

StoreIdle ==
    /\ dpc = "idle" /\ attempt = 0 /\ requests = 0 /\ outcomes = <<>>
    /\ last_exception = <<>> /\ delays = 0 /\ search_result = "none"

CutIdle ==
    /\ cpc = "idle" /\ cut_text = <<>> /\ cut_result = <<>>

ProbeIdle ==
    /\ qpc = "idle" /\ probe_config = 0 /\ probe_query = <<>> /\ probe_store = <<>>
    /\ probe_signals = <<>> /\ probe_path = "none"

MapReduceIdle ==
    /\ mpc = "idle" /\ all_segments = <<>> /\ chunk_size = 0 /\ chunks = <<>>
    /\ extracted_info = <<>> /\ llm_log = <<>> /\ relevant_info = <<>> /\ m_result = "none"

RetryIdle ==
    /\ wpc = "idle" /\ max_attempts = 0 /\ w_outcomes = <<>> /\ w_attempt = 0
    /\ w_log = <<>> /\ w_raised = 0

BreakerIdle ==
    /\ cb_config = <<>> /\ cb_state = "idle" /\ failure_count = 0
    /\ last_failure_time = 0 /\ now = 0 /\ last_call = <<>>

ZIdle == CutIdle /\ ProbeIdle /\ MapReduceIdle /\ RetryIdle /\ BreakerIdle

ZIdle_but_c == ProbeIdle /\ MapReduceIdle /\ RetryIdle /\ BreakerIdle

ZIdle_but_q == CutIdle /\ MapReduceIdle /\ RetryIdle /\ BreakerIdle

ZIdle_but_m == CutIdle /\ ProbeIdle /\ RetryIdle /\ BreakerIdle

ZIdle_but_w == CutIdle /\ ProbeIdle /\ MapReduceIdle /\ BreakerIdle

ZIdle_but_b == CutIdle /\ ProbeIdle /\ MapReduceIdle /\ RetryIdle

XIdle == RespIdle /\ JsonIdle /\ GatherIdle /\ StreamIdle /\ StoreIdle

XIdle_but_r == JsonIdle /\ GatherIdle /\ StreamIdle /\ StoreIdle

XIdle_but_j == RespIdle /\ GatherIdle /\ StreamIdle /\ StoreIdle

XIdle_but_g == RespIdle /\ JsonIdle /\ StreamIdle /\ StoreIdle

XIdle_but_s == RespIdle /\ JsonIdle /\ GatherIdle /\ StoreIdle

XIdle_but_d == RespIdle /\ JsonIdle /\ GatherIdle /\ StreamIdle

\* ------------------------------------------------------------------------
\* Bounds of the model
\* ------------------------------------------------------------------------
NumSegs == 4        \* segment ids 1..NumSegs in the store
MaxHits == 3        \* longest hit list returned by one search
MaxCap  == 2        \* largest max_docs / max_snippets_per_doc tried
MaxBlocks == 2      \* most blocks of a ContextBundle handed to the truncation
MaxSnips  == 3      \* most snippets of one of its blocks

\* ------------------------------------------------------------------------
\* Helpers
\* ------------------------------------------------------------------------
Range(s) == {s[i] : i \in DOMAIN s}

Min(a, b) == IF a <= b THEN a ELSE b

Max(a, b) == IF a >= b THEN a ELSE b

RECURSIVE Perms(_)
Perms(S) == IF S = {} THEN {<<>>}
            ELSE UNION {{<<x>> \o p : p \in Perms(S \ {x})} : x \in S}

RECURSIVE DistinctSeqs(_, _)
\* sequences of pairwise distinct elements of S, of length 0..n
DistinctSeqs(S, n) ==
    IF n = 0 THEN {<<>>}
    ELSE LET shorter == DistinctSeqs(S, n - 1)
         IN  shorter \cup UNION {{Append(p, x) : x \in S \ Range(p)} :
                                   p \in {q \in shorter : Len(q) = n - 1}}

Segments == 1..NumSegs

\* the store: the document a segment belongs to (segments 1 and 2 share
\* document 1, every further segment has a document of its own)
DocOf(seg) == IF seg <= 2 THEN 1 ELSE seg - 1

\* ------------------------------------------------------------------------
\* Reciprocal rank fusion
\* ------------------------------------------------------------------------
RRF_K == 60

\* mutant of RankMap: 0-based positions (enumerate without the + 1)
RankMap_zeroBased(results) ==
    [id \in Range(results) |->
        (CHOOSE i \in DOMAIN results :
            /\ results[i] = id
            /\ \A j \in DOMAIN results : results[j] = id => j <= i) - 1]

\* dict comprehension {r['id']: (i + 1, r) for i, r in enumerate(results)}:
\* a later entry with the same id overwrites an earlier one
RankMap(results) ==
    [id \in Range(results) |->
        CHOOSE i \in DOMAIN results :
            /\ results[i] = id
            /\ \A j \in DOMAIN results : results[j] = id => j <= i]

\* mutant of RankOrDefault: an absent segment gets rank len(results)
RankOrDefault_lenDefault(results, id) ==
    IF id \in Range(results) THEN RankMap(results)[id] ELSE Len(results)

\* map.get(seg_id, (len(results) + 1, None))[0]
RankOrDefault(results, id) ==
    IF id \in Range(results) THEN RankMap(results)[id] ELSE Len(results) + 1

\* vw/(k + vector_rank) + tw/(k + text_rank) as the exact fraction num/den
RrfNum(vw, tw, vrank, trank) == vw * (RRF_K + trank) + tw * (RRF_K + vrank)

RrfDen(vrank, trank) == (RRF_K + vrank) * (RRF_K + trank)

FusedResult(v, t, vw, tw, id) ==
    LET vrank == RankOrDefault(v, id)
        trank == RankOrDefault(t, id)
    IN  [id |-> id, document_id |-> DocOf(id),
         rrf_num |-> RrfNum(vw, tw, vrank, trank), rrf_den |-> RrfDen(vrank, trank),
         vector_rank |-> vrank, text_rank |-> trank]

\* a.rrf_score >= b.rrf_score, a.rrf_score > b.rrf_score (denominators are positive)
ScoreGeq(a, b) == a.rrf_num * b.rrf_den >= b.rrf_num * a.rrf_den

ScoreGt(a, b) == a.rrf_num * b.rrf_den > b.rrf_num * a.rrf_den

\* mutant of InsertDesc: the sort without reverse=True (ascending)
InsertDesc_ascending(sorted, x) ==
    LET keep == {i \in DOMAIN sorted : ScoreGeq(x, sorted[i])}
        n    == IF keep = {} THEN 0 ELSE CHOOSE i \in keep : \A j \in keep : j <= i
    IN  SubSeq(sorted, 1, n) \o <<x>> \o SubSeq(sorted, n + 1, Len(sorted))

\* list.sort(key=rrf_score, reverse=True) is stable: an element goes behind
\* every element whose score is at least its own
InsertDesc(sorted, x) ==
    LET keep == {i \in DOMAIN sorted : ScoreGeq(sorted[i], x)}
        n    == IF keep = {} THEN 0 ELSE CHOOSE i \in keep : \A j \in keep : j <= i
    IN  SubSeq(sorted, 1, n) \o <<x>> \o SubSeq(sorted, n + 1, Len(sorted))

RECURSIVE SortDesc(_)
SortDesc(rs) ==
    IF rs = <<>> THEN <<>>
    ELSE InsertDesc(SortDesc(SubSeq(rs, 1, Len(rs) - 1)), rs[Len(rs)])

\* _hybrid_rerank(vector_results, text_results, vector_weight, text_weight);
\* order is the iteration order of the set all_ids
hybrid_rerank(v, t, vw, tw, order) ==
    SortDesc([i \in DOMAIN order |-> FusedResult(v, t, vw, tw, order[i])])

\* _hybrid_rerank_optimized(vector_results, text_results, alpha), alpha in tenths
hybrid_rerank_optimized(v, t, alpha, order) ==
    SortDesc([i \in DOMAIN order |-> FusedResult(v, t, alpha, 10 - alpha, order[i])])

\* ------------------------------------------------------------------------
\* Grouping by document
\* ------------------------------------------------------------------------
\* mutant of GroupStep: the cap test written <= instead of <
GroupStep_capOffByOne(groups, r, cap) ==
    LET known  == \E i \in DOMAIN groups : groups[i].document_id = r.document_id
        opened == IF known THEN groups
                  ELSE Append(groups, [document_id |-> r.document_id, snippets |-> <<>>])
        g      == CHOOSE i \in DOMAIN opened : opened[i].document_id = r.document_id
    IN  IF Len(opened[g].snippets) <= cap
        THEN [opened EXCEPT ![g].snippets = Append(@, r.id)]
        ELSE opened

\* one iteration of "for result in results": open the document's group on
\* its first result, then add the snippet while the group is below the cap.
\* A snippet "[§ordinal] text" is modelled by the id of its segment.
GroupStep(groups, r, cap) ==
    LET known  == \E i \in DOMAIN groups : groups[i].document_id = r.document_id
        opened == IF known THEN groups
                  ELSE Append(groups, [document_id |-> r.document_id, snippets |-> <<>>])
        g      == CHOOSE i \in DOMAIN opened : opened[i].document_id = r.document_id
    IN  IF Len(opened[g].snippets) < cap
        THEN [opened EXCEPT ![g].snippets = Append(@, r.id)]
        ELSE opened

RECURSIVE DocGroups(_, _)
DocGroups(results, cap) ==
    IF results = <<>> THEN <<>>
    ELSE GroupStep(DocGroups(SubSeq(results, 1, Len(results) - 1), cap),
                   results[Len(results)], cap)

HasSnippets(group) == group.snippets # <<>>

\* _group_results_by_document(results, max_docs, max_snippets_per_doc)
group_results_by_document(results, maxDocs, maxSnippetsPerDoc) ==
    LET doc_groups == DocGroups(results, maxSnippetsPerDoc)
    IN  SelectSeq(SubSeq(doc_groups, 1, Min(maxDocs, Len(doc_groups))), HasSnippets)

\* _group_results_optimized(results, config) with short_top_docs, short_per_doc
group_results_optimized(results, short_top_docs, short_per_doc) ==
    LET doc_groups == DocGroups(results, short_per_doc)
    IN  SelectSeq(SubSeq(doc_groups, 1, Min(short_top_docs, Len(doc_groups))), HasSnippets)

\* ------------------------------------------------------------------------
\* Router, escalation and orchestrator
\* ------------------------------------------------------------------------
None == [none |-> TRUE]

\* router weights in tenths (config.py RouterConfig.default)
DefaultWeights ==
    [avg_vec_sim |-> 9, fts_hit_rate |-> 5, top_doc_share |-> 8, unique_docs |-> -7,
     has_quotes_or_ids |-> -1, has_compare_temporal_conditions |-> -6]

\* ROUTER_WEIGHT_AVG_VEC_SIM set to -0.9, the other weights at their defaults
InvertedSimWeights == [DefaultWeights EXCEPT !.avg_vec_sim = -9]

\* threshold in thousandths: the default 0.5, and 0.7
RouterConfigs ==
    {[weights |-> w, threshold |-> t] :
        w \in {DefaultWeights, InvertedSimWeights}, t \in {500, 700}}

\* min_avg_vec_sim and min_fts_hit_rate in hundredths; the defaults are 2, 4, 60, 10
EscalationConfigs ==
    {[min_strong_segments |-> m, max_distinct_docs |-> 4,
      min_avg_vec_sim |-> a, min_fts_hit_rate |-> 10] : m \in {0, 2}, a \in {0, 60}}

Configs == {[router |-> r, escalation |-> e] : r \in RouterConfigs, e \in EscalationConfigs}

\* ProbeSignals: avg_vec_sim, fts_hit_rate, top_doc_share in hundredths
SignalSpace ==
    [avg_vec_sim : {10, 60, 90}, fts_hit_rate : {0, 50, 80}, top_doc_share : {50, 100},
     unique_docs : {1, 2, 5}, has_quotes_or_ids : BOOLEAN,
     has_compare_temporal_conditions : BOOLEAN]

NoSignals ==
    [avg_vec_sim |-> 0, fts_hit_rate |-> 0, top_doc_share |-> 0, unique_docs |-> 0,
     has_quotes_or_ids |-> FALSE, has_compare_temporal_conditions |-> FALSE]

\* mutant of compute_routing_score: unique_docs used without the division by 10
compute_routing_score_rawDocs(sig, cfg) ==
    LET weights == cfg.router.weights
    IN  weights.avg_vec_sim * sig.avg_vec_sim
        + weights.fts_hit_rate * sig.fts_hit_rate
        + weights.top_doc_share * sig.top_doc_share
        + weights.unique_docs * (sig.unique_docs * 100)
        + weights.has_quotes_or_ids * (IF sig.has_quotes_or_ids THEN 100 ELSE 0)
        + weights.has_compare_temporal_conditions
            * (IF sig.has_compare_temporal_conditions THEN 100 ELSE 0)

\* compute_routing_score(signals, config), in thousandths: a weight in
\* tenths times a signal in hundredths; unique_docs / 10.0 is unique_docs * 10
\* hundredths
compute_routing_score(sig, cfg) ==
    LET weights == cfg.router.weights
    IN  weights.avg_vec_sim * sig.avg_vec_sim
        + weights.fts_hit_rate * sig.fts_hit_rate
        + weights.top_doc_share * sig.top_doc_share
        + weights.unique_docs * (sig.unique_docs * 10)
        + weights.has_quotes_or_ids * (IF sig.has_quotes_or_ids THEN 100 ELSE 0)
        + weights.has_compare_temporal_conditions
            * (IF sig.has_compare_temporal_conditions THEN 100 ELSE 0)

\* mutant of RoutedShort: the comparison turned round
RoutedShort_below(sig, cfg) ==
    compute_routing_score(sig, cfg) < cfg.router.threshold

\* score >= config.router.threshold for the signals sig: the SHORT branch
RoutedShort(sig, cfg) ==
    compute_routing_score(sig, cfg) >= cfg.router.threshold

\* ---- the SHORT path as the orchestrator sees it ----
\* A context text is modelled here by its words; a block by the number of
\* its snippets.
conflict_indicators == {"however", "but", "although", "contradicts", "differs", "opposed"}

\* str.lower() of a word
Lower(word) == IF word = "However" THEN "however" ELSE word

\* indicator in word (substring test on a lower-case word)
InWord(indicator, word) ==
    \/ indicator = word
    \/ indicator = "but" /\ word = "button"

\* indicator in context_text.lower()
InText(indicator, context_text) ==
    \E i \in DOMAIN context_text : InWord(indicator, Lower(context_text[i]))

\* sum(1 for indicator in conflict_indicators if indicator in context_text) >= 2
has_conflicts(context_text) ==
    Cardinality({ind \in conflict_indicators : InText(ind, context_text)}) >= 2

ContextTexts ==
    {<<"policy">>, <<"However", "policy">>, <<"however", "but">>, <<"button", "differs">>,
     <<"but", "policy", "but">>}

\* snippets per block of the retrieved context: no hit at all, one document
\* with one or three snippets, five documents with one snippet each
BlockShapes == {<<>>, <<1>>, <<3>>, <<1, 1, 1, 1, 1>>}

ShortContexts ==
    {[context_text |-> IF b = <<>> THEN <<>> ELSE t, blocks |-> b] :
        b \in BlockShapes, t \in ContextTexts}

RECURSIVE SumSeq(_)
SumSeq(ns) == IF ns = <<>> THEN 0 ELSE ns[1] + SumSeq(Tail(ns))

\* the sub-steps of run_short_path that can raise
\* build_context_short_path: embedding, vector search, text search;
\* synthesize_answer_short: truncation, the LLM call, response validation
ShortFaults == {"embedding", "vector_search", "text_search", "truncation", "llm", "validation"}

\* synthesize_answer_short(query, context, config): the truncation happens
\* before the try block, the LLM call and the validation inside it
synthesize_answer_short(flt) ==
    IF flt \in {"llm", "validation"}
    THEN [raised |-> FALSE, answer |-> [kind |-> "synthesis_apology", text |-> flt]]
    ELSE IF flt = "truncation"
    THEN [raised |-> TRUE, answer |-> [kind |-> "none", text |-> ""]]
    ELSE [raised |-> FALSE, answer |-> [kind |-> "short_answer", text |-> ""]]

\* run_short_path(query, config, document_id) when the retrieval returns ctx
\* and the sub-step flt raises an exception with message flt ("none": no one)
run_short_path(ctx, flt) ==
    LET synth == synthesize_answer_short(flt)
    IN  IF flt \in {"embedding", "vector_search", "text_search"} \/ synth.raised
        THEN [answer |-> [kind |-> "error_processing", text |-> flt],
              context |-> None,
              debug_info |-> [error |-> flt],
              success |-> FALSE,
              error |-> flt]
        ELSE [answer |-> synth.answer,
              context |-> ctx,
              debug_info |-> [total_docs |-> Len(ctx.blocks),
                              total_segments |-> SumSeq(ctx.blocks),
                              has_context |-> ctx.context_text # <<>>],
              success |-> TRUE,
              error |-> "None"]

NoShortResult ==
    [answer |-> [kind |-> "none", text |-> ""], context |-> None,
     debug_info |-> [error |-> "None"], success |-> FALSE, error |-> "None"]

\* debug_info.get(key, 0)
DebugGet(debug_info, key) ==
    IF key \in DOMAIN debug_info THEN debug_info[key] ELSE 0

\* mutant of should_escalate_from_short: escalates only on two or more reasons
should_escalate_from_short_twoReasons(result, sig, cfg) ==
    IF ~result.success \/ result.context = None THEN TRUE
    ELSE LET escalation == cfg.escalation
             reasons ==
                 (IF DebugGet(result.debug_info, "total_segments") < escalation.min_strong_segments
                  THEN {"insufficient segments"} ELSE {})
                 \cup (IF DebugGet(result.debug_info, "total_docs") > escalation.max_distinct_docs
                       THEN {"too many docs"} ELSE {})
                 \cup (IF sig.avg_vec_sim < escalation.min_avg_vec_sim
                       THEN {"low vector similarity"} ELSE {})
                 \cup (IF sig.fts_hit_rate < escalation.min_fts_hit_rate
                       THEN {"low FTS hit rate"} ELSE {})
                 \cup (IF has_conflicts(result.context.context_text)
                       THEN {"potential conflicts detected"} ELSE {})
         IN  Cardinality(reasons) > 1

\* should_escalate_from_short(short_result, signals, config)
should_escalate_from_short(result, sig, cfg) ==
    IF ~result.success \/ result.context = None THEN TRUE
    ELSE LET escalation == cfg.escalation
             reasons ==
                 (IF DebugGet(result.debug_info, "total_segments") < escalation.min_strong_segments
                  THEN {"insufficient segments"} ELSE {})
                 \cup (IF DebugGet(result.debug_info, "total_docs") > escalation.max_distinct_docs
                       THEN {"too many docs"} ELSE {})
                 \cup (IF sig.avg_vec_sim < escalation.min_avg_vec_sim
                       THEN {"low vector similarity"} ELSE {})
                 \cup (IF sig.fts_hit_rate < escalation.min_fts_hit_rate
                       THEN {"low FTS hit rate"} ELSE {})
                 \cup (IF has_conflicts(result.context.context_text)
                       THEN {"potential conflicts detected"} ELSE {})
         IN  Cardinality(reasons) > 0

\* what run_long_path returns: an answer, or an apology when the path failed
\* inside (it does not raise)
LongPathResults ==
    {[answer |-> [kind |-> "long_answer", text |-> ""], success |-> TRUE, error |-> "None"],
     [answer |-> [kind |-> "long_apology", text |-> "long_path"], success |-> FALSE,
      error |-> "long_path"]}

NoLongResult == [answer |-> [kind |-> "none", text |-> ""], success |-> FALSE, error |-> "None"]

NoAnswer == [kind |-> "none", text |-> ""]

OrchIdle ==
    /\ pc = "idle"
    /\ config = [router |-> [weights |-> DefaultWeights, threshold |-> 500],
                 escalation |-> [min_strong_segments |-> 2, max_distinct_docs |-> 4,
                                 min_avg_vec_sim |-> 60, min_fts_hit_rate |-> 10]]
    /\ signals = NoSignals /\ score = 0 /\ path = "none" /\ fault = "none"
    /\ short_result = NoShortResult /\ long_result = NoLongResult
    /\ escalate = FALSE /\ calls = <<>> /\ answer = NoAnswer
    /\ document_id = "None" /\ retrievals = <<>>

\* the document_id argument: None, or the id of a document
DocumentIds == {"None", "document_7"}

\* smart_handle_message(query, config, document_id) is entered
Init ==
    /\ FuseIdle /\ TruncIdle /\ XIdle /\ ZIdle
    /\ pc = "start"
    /\ config \in Configs
    /\ signals = NoSignals /\ score = 0 /\ path = "none" /\ fault = "none"
    /\ short_result = NoShortResult /\ long_result = NoLongResult
    /\ escalate = FALSE /\ calls = <<>> /\ answer = NoAnswer
    /\ document_id \in DocumentIds /\ retrievals = <<>>

\* signals = compute_probe_signals(query, config)
Probe ==
    /\ pc = "start"
    /\ \E sig \in SignalSpace : signals' = sig
    /\ calls' = Append(calls, "compute_probe_signals")
    /\ pc' = "probed"
    /\ UNCHANGED <<config, document_id, retrievals, score, path, fault, short_result,
                  long_result, escalate, answer>>
    /\ UNCHANGED <<fvars, tvars, xvars, zvars>>

\* mutant of error_answer: the exception leaves smart_handle_message, no
\* string is returned
error_answer_propagates(e) == NoAnswer

\* except Exception as e:
\*     return f"I encountered an error while processing your request: {str(e)}"
error_answer(e) == [kind |-> "error_orchestrator", text |-> e]

\* compute_probe_signals raises (embedding service or store): except branch
ProbeRaises ==
    /\ pc = "start"
    /\ calls' = Append(calls, "compute_probe_signals")
    /\ answer' = error_answer("probe")
    /\ pc' = "done"
    /\ UNCHANGED <<config, document_id, retrievals, signals, score, path, fault,
                  short_result, long_result, escalate>>
    /\ UNCHANGED <<fvars, tvars, xvars, zvars>>

\* score = compute_routing_score(signals, config)
Score ==
    /\ pc = "probed"
    /\ score' = compute_routing_score(signals, config)
    /\ calls' = Append(calls, "compute_routing_score")
    /\ pc' = "scored"
    /\ UNCHANGED <<config, document_id, retrievals, signals, path, fault, short_result,
                  long_result, escalate, answer>>
    /\ UNCHANGED <<fvars, tvars, xvars, zvars>>

\* compute_routing_score raises (a weight missing from config.router.weights):
\* except branch
ScoreRaises ==
    /\ pc = "probed"
    /\ calls' = Append(calls, "compute_routing_score")
    /\ answer' = error_answer("router")
    /\ pc' = "done"
    /\ UNCHANGED <<config, document_id, retrievals, signals, score, path, fault,
                  short_result, long_result, escalate>>
    /\ UNCHANGED <<fvars, tvars, xvars, zvars>>

\* mutant of Route: the comparison written > instead of >=
Route_strict ==
    /\ pc = "scored"
    /\ IF score > config.router.threshold
       THEN path' = "SHORT" /\ pc' = "short"
       ELSE path' = "LONG" /\ pc' = "long"
    /\ UNCHANGED <<config, document_id, retrievals, signals, score, fault,
                  short_result, long_result, escalate,
                   calls, answer>>
    /\ UNCHANGED <<fvars, tvars, xvars, zvars>>

\* if score >= config.router.threshold: path = "SHORT" else: path = "LONG"
Route ==
    /\ pc = "scored"
    /\ IF score >= config.router.threshold
       THEN path' = "SHORT" /\ pc' = "short"
       ELSE path' = "LONG" /\ pc' = "long"
    /\ UNCHANGED <<config, document_id, retrievals, signals, score, fault,
                  short_result, long_result, escalate,
                   calls, answer>>
    /\ UNCHANGED <<fvars, tvars, xvars, zvars>>

\* short_result = await run_short_path(query, config, document_id)
RunShort ==
    /\ pc = "short"
    /\ \E ctx \in ShortContexts : \E flt \in ShortFaults \cup {"none"} :
          /\ fault' = flt
          /\ short_result' = run_short_path(ctx, flt)
          /\ retrievals' = IF flt = "embedding" THEN retrievals
                           ELSE Append(retrievals, [by |-> "run_short_path",
                                                    document_id |-> document_id])
    /\ calls' = Append(calls, "run_short_path")
    /\ pc' = "escalation"
    /\ UNCHANGED <<config, document_id, signals, score, path, long_result, escalate,
                  answer>>
    /\ UNCHANGED <<fvars, tvars, xvars, zvars>>

\* if should_escalate_from_short(short_result, signals, config): ... else:
\* return short_result.answer
Escalation ==
    /\ pc = "escalation"
    /\ escalate' = should_escalate_from_short(short_result, signals, config)
    /\ calls' = Append(calls, "should_escalate_from_short")
    /\ IF escalate'
       THEN pc' = "long" /\ answer' = answer
       ELSE pc' = "done" /\ answer' = short_result.answer
    /\ UNCHANGED <<config, document_id, retrievals, signals, score, path, fault,
                  short_result, long_result>>
    /\ UNCHANGED <<fvars, tvars, xvars, zvars>>

\* long_result = await run_long_path(query, signals, config); return long_result.answer
RunLong ==
    /\ pc = "long"
    /\ \E res \in LongPathResults : long_result' = res /\ answer' = res.answer
    /\ calls' = Append(calls, "run_long_path")
    /\ retrievals' = Append(retrievals, [by |-> "run_long_path", document_id |-> "None"])
    /\ pc' = "done"
    /\ UNCHANGED <<config, document_id, signals, score, path, fault, short_result,
                  escalate>>
    /\ UNCHANGED <<fvars, tvars, xvars, zvars>>

\* run_long_path raises: except branch
RunLongRaises ==
    /\ pc = "long"
    /\ calls' = Append(calls, "run_long_path")
    /\ answer' = error_answer("long_path")
    /\ pc' = "done"
    /\ UNCHANGED <<config, document_id, retrievals, signals, score, path, fault,
                  short_result, long_result, escalate>>
    /\ UNCHANGED <<fvars, tvars, xvars, zvars>>

Next ==
    \/ Probe \/ ProbeRaises \/ Score \/ ScoreRaises \/ Route \/ RunShort \/ Escalation
    \/ RunLong \/ RunLongRaises

Spec == Init /\ [][Next]_vars

\* ------------------------------------------------------------------------
\* Hybrid search as a state machine: hits arrive, are fused, are grouped
\* ------------------------------------------------------------------------
HitLists == DistinctSeqs(Segments, MaxHits)

\* (vector_weight, text_weight) of _hybrid_rerank: its defaults 0.7/0.3 and 0.5/0.5
MultiWeights == {<<7, 3>>, <<5, 5>>}

\* short_alpha of the SHORT path: its default 0.6, and 1.0
ShortAlphas == {6, 10}

all_ids == Range(vector_results) \cup Range(text_results)

FuseInit ==
    /\ TruncIdle /\ OrchIdle /\ XIdle /\ ZIdle
    /\ fpc = "input"
    /\ vector_results \in HitLists
    /\ text_results \in HitLists
    /\ \/ /\ mode = "multi"
          /\ \E w \in MultiWeights : vector_weight = w[1] /\ text_weight = w[2]
       \/ /\ mode = "short"
          /\ \E alpha \in ShortAlphas : vector_weight = alpha /\ text_weight = 10 - alpha
    /\ combined_results = <<>> /\ max_docs = 0 /\ max_snippets = 0 /\ blocks = <<>>

\* build_grouped_context, step 2: final_results = _hybrid_rerank(...)
Fuse ==
    /\ fpc = "input" /\ mode = "multi"
    /\ \E order \in Perms(all_ids) :
          combined_results' = hybrid_rerank(vector_results, text_results,
                                            vector_weight, text_weight, order)
    /\ fpc' = "fused"
    /\ UNCHANGED <<mode, vector_results, text_results, vector_weight, text_weight,
                   max_docs, max_snippets, blocks>>
    /\ UNCHANGED <<tvars, ovars, xvars, zvars>>

\* build_context_short_path, step 3: _hybrid_rerank_optimized(..., config.short_alpha)
FuseShort ==
    /\ fpc = "input" /\ mode = "short"
    /\ \E order \in Perms(all_ids) :
          combined_results' = hybrid_rerank_optimized(vector_results, text_results,
                                                      vector_weight, order)
    /\ fpc' = "fused"
    /\ UNCHANGED <<mode, vector_results, text_results, vector_weight, text_weight,
                   max_docs, max_snippets, blocks>>
    /\ UNCHANGED <<tvars, ovars, xvars, zvars>>

\* build_grouped_context, step 3: _group_results_by_document(final_results, ...)
Group ==
    /\ fpc = "fused" /\ mode = "multi"
    /\ \E d \in 0..MaxCap, s \in 0..MaxCap :
          /\ max_docs' = d
          /\ max_snippets' = s
          /\ blocks' = group_results_by_document(combined_results, d, s)
    /\ fpc' = "grouped"
    /\ UNCHANGED <<mode, vector_results, text_results, vector_weight, text_weight,
                   combined_results>>
    /\ UNCHANGED <<tvars, ovars, xvars, zvars>>

\* build_context_short_path, step 4: _group_results_optimized(final_results, config)
GroupShort ==
    /\ fpc = "fused" /\ mode = "short"
    /\ \E d \in 0..MaxCap, s \in 0..MaxCap :
          /\ max_docs' = d
          /\ max_snippets' = s
          /\ blocks' = group_results_optimized(combined_results, d, s)
    /\ fpc' = "grouped"
    /\ UNCHANGED <<mode, vector_results, text_results, vector_weight, text_weight,
                   combined_results>>
    /\ UNCHANGED <<tvars, ovars, xvars, zvars>>

FuseNext == Fuse \/ FuseShort \/ Group \/ GroupShort

SpecFuse == FuseInit /\ [][FuseNext]_vars

\* ------------------------------------------------------------------------
\* Context truncation (token_manager.py)
\* ------------------------------------------------------------------------
\* A snippet string is modelled by the segment it quotes, the number of
\* characters of "[§ordinal] text" it keeps and the number of '.' appended
\* after them; a title by its length.  A context text is the list of the
\* lines that "\n".join(context_parts).strip() leaves.
SnippetLen(sn) == sn.keep + sn.dots

\* snippet[:n]
SnippetPrefix(sn, n) ==
    IF n <= sn.keep THEN [seg |-> sn.seg, keep |-> n, dots |-> 0]
    ELSE [seg |-> sn.seg, keep |-> sn.keep, dots |-> Min(n, SnippetLen(sn)) - sn.keep]

\* mutant of TruncateSnippet: no room reserved for the "..." (cut at
\* remaining_in_budget instead of remaining_in_budget - 3)
TruncateSnippet_noReserve(sn, remaining_in_budget) ==
    LET cut == SnippetPrefix(sn, remaining_in_budget)
    IN  [cut EXCEPT !.dots = @ + 3]

\* snippet[:remaining_in_budget-3] + "..."
TruncateSnippet(sn, remaining_in_budget) ==
    LET cut == SnippetPrefix(sn, remaining_in_budget - 3)
    IN  [cut EXCEPT !.dots = @ + 3]

RECURSIVE SumSnippetLen(_)
\* sum(len(snippet) for snippet in snippets)
SumSnippetLen(snippets) ==
    IF snippets = <<>> THEN 0
    ELSE SnippetLen(snippets[1]) + SumSnippetLen(Tail(snippets))

RECURSIVE TotalSnippetChars(_)
TotalSnippetChars(bs) ==
    IF bs = <<>> THEN 0
    ELSE SumSnippetLen(bs[1].snippets) + TotalSnippetChars(Tail(bs))

RECURSIVE TitleOverhead(_)
\* sum(len(f"{{{block.title}}}\n\n") for block in context.blocks)
TitleOverhead(bs) ==
    IF bs = <<>> THEN 0
    ELSE (bs[1].title + 4) + TitleOverhead(Tail(bs))

\* int(x / y) for y > 0: Python's int() truncates towards zero
IntTrunc(x, y) == IF x >= 0 THEN x \div y ELSE -((-x) \div y)

\* the context_parts of one block: title line, snippets, empty line
BlockLines(block) ==
    <<[kind |-> "title", title |-> block.title]>>
    \o [i \in DOMAIN block.snippets |-> [kind |-> "snippet", snippet |-> block.snippets[i]]]
    \o <<[kind |-> "blank"]>>

RECURSIVE ContextParts(_)
ContextParts(bs) ==
    IF bs = <<>> THEN <<>>
    ELSE BlockLines(bs[1]) \o ContextParts(Tail(bs))

\* "\n".join(context_parts).strip(): the join ends in "\n" + "", which the
\* strip removes (a title line starts with "{", a snippet with "[")
FormatContext(bs) ==
    LET parts == ContextParts(bs)
    IN  IF parts = <<>> THEN <<>> ELSE SubSeq(parts, 1, Len(parts) - 1)

LineLen(line) ==
    CASE line.kind = "title"   -> line.title + 2
      [] line.kind = "snippet" -> SnippetLen(line.snippet)
      [] line.kind = "blank"   -> 0

RECURSIVE SumLineLen(_)
SumLineLen(lines) ==
    IF lines = <<>> THEN 0 ELSE LineLen(lines[1]) + SumLineLen(Tail(lines))

\* len(context_text): the lines and the newlines between them
TextLen(text) == IF text = <<>> THEN 0 ELSE SumLineLen(text) + (Len(text) - 1)

\* block_char_budget of one block
BlockCharBudget(block, bs, remaining_chars) ==
    LET total_snippet_chars == TotalSnippetChars(bs)
    IN  IF total_snippet_chars > 0
        THEN IntTrunc(SumSnippetLen(block.snippets) * remaining_chars, total_snippet_chars)
        ELSE remaining_chars \div Len(bs)

RECURSIVE KeepSnippets(_, _, _, _)
\* "for snippet in block.snippets": keep whole snippets while they fit, then
\* a cut copy of the first one that does not if more than 100 characters
\* are left, then stop
KeepSnippets(snippets, used_chars, block_char_budget, truncated_snippets) ==
    IF snippets = <<>> THEN truncated_snippets
    ELSE IF used_chars + SnippetLen(snippets[1]) <= block_char_budget
         THEN KeepSnippets(Tail(snippets), used_chars + SnippetLen(snippets[1]),
                           block_char_budget, Append(truncated_snippets, snippets[1]))
         ELSE LET remaining_in_budget == block_char_budget - used_chars
              IN  IF remaining_in_budget > 100
                  THEN Append(truncated_snippets,
                              TruncateSnippet(snippets[1], remaining_in_budget))
                  ELSE truncated_snippets

TruncateBlock(block, bs, remaining_chars) ==
    [document_id |-> block.document_id, title |-> block.title,
     snippets |-> KeepSnippets(block.snippets, 0,
                               BlockCharBudget(block, bs, remaining_chars), <<>>)]

HasContent(block) == block.snippets # <<>>

\* truncate_context_by_tokens(context, config) with max_chars = config.max_context_chars
truncate_context_by_tokens(ctx, max_chars) ==
    IF TextLen(ctx.context_text) <= max_chars THEN ctx
    ELSE LET remaining_chars  == max_chars - TitleOverhead(ctx.blocks)
             truncated_blocks ==
                 SelectSeq([b \in DOMAIN ctx.blocks |->
                               TruncateBlock(ctx.blocks[b], ctx.blocks, remaining_chars)],
                           HasContent)
         IN  [query |-> ctx.query,
              context_text |-> FormatContext(truncated_blocks),
              blocks |-> truncated_blocks]

\* ---- the bundles the truncation is run on ----
\* lengths of a snippet "[§ordinal] text": the shortest possible one and a long one
SnippetLens == {5, 150}

\* lengths of a document title
TitleLens == {0, 3}

\* values of max_context_chars
CharBudgets == {2, 19, 160, 300, 400, 1000}

RECURSIVE SeqsOfLen(_, _)
SeqsOfLen(S, n) ==
    IF n = 0 THEN {<<>>}
    ELSE {Append(p, x) : p \in SeqsOfLen(S, n - 1), x \in S}

\* the blocks the grouping builds: document b, a title, 1..MaxSnips whole snippets
InputBlocks(b) ==
    {[document_id |-> b, title |-> t,
      snippets |-> [i \in DOMAIN ls |-> [seg |-> 10 * b + i, keep |-> ls[i], dots |-> 0]]] :
        t \in TitleLens, ls \in UNION {SeqsOfLen(SnippetLens, n) : n \in 1..MaxSnips}}

RECURSIVE InputBlockLists(_)
InputBlockLists(n) ==
    IF n = 0 THEN {<<>>}
    ELSE {Append(bs, blk) : bs \in InputBlockLists(n - 1), blk \in InputBlocks(n)}

\* ContextBundle(query, context_text, blocks) as build_context_short_path returns it
InputContexts(max_blocks) ==
    {[query |-> "q", context_text |-> FormatContext(bs), blocks |-> bs] :
        bs \in UNION {InputBlockLists(n) : n \in 0..max_blocks}}

TruncInit ==
    /\ FuseIdle /\ OrchIdle /\ XIdle /\ ZIdle
    /\ tpc = "input"
    /\ max_context_chars \in CharBudgets
    /\ context \in InputContexts(MaxBlocks)
    /\ truncated = <<>> /\ retruncated = <<>>

\* synthesize_answer_short: context = truncate_context_by_tokens(context, config)
Truncate ==
    /\ tpc = "input"
    /\ truncated' = truncate_context_by_tokens(context, max_context_chars)
    /\ tpc' = "once"
    /\ UNCHANGED <<max_context_chars, context, retruncated>>
    /\ UNCHANGED <<fvars, ovars, xvars, zvars>>

\* the truncated bundle is truncated again with the same budget
Retruncate ==
    /\ tpc = "once"
    /\ retruncated' = truncate_context_by_tokens(truncated, max_context_chars)
    /\ tpc' = "twice"
    /\ UNCHANGED <<max_context_chars, context, truncated>>
    /\ UNCHANGED <<fvars, ovars, xvars, zvars>>

TruncNext == Truncate \/ Retruncate

SpecTrunc == TruncInit /\ [][TruncNext]_vars

\* ------------------------------------------------------------------------
\* Properties of the fusion and of the grouping (checked under SpecFuse)
\* ------------------------------------------------------------------------
Fused == fpc \in {"fused", "grouped"}

\* C5: for non-empty vector and text hit lists the fusion returns exactly one
\* result per segment id of the union of the two lists, every result has
\* rrf_score > 0, and the results are sorted non-increasing by rrf_score.
C5_RrfTotalAndSorted ==
    (Fused /\ vector_results # <<>> /\ text_results # <<>>) =>
        /\ Len(combined_results) = Cardinality(all_ids)
        /\ {combined_results[i].id : i \in DOMAIN combined_results} = all_ids
        /\ \A i \in DOMAIN combined_results :
              combined_results[i].rrf_num > 0 /\ combined_results[i].rrf_den > 0
        /\ \A i \in DOMAIN combined_results : \A j \in DOMAIN combined_results :
              i < j => combined_results[i].rrf_num * combined_results[j].rrf_den
                         >= combined_results[j].rrf_num * combined_results[i].rrf_den

\* a fusion of overlapping lists that reorders: the union has four segments,
\* one of them in both lists, and the best vector hit is not the top result
C5_Witness ==
    /\ fpc = "fused"
    /\ Cardinality(all_ids) = 4
    /\ Range(vector_results) \cap Range(text_results) # {}
    /\ combined_results[1].id # vector_results[1]

\* C6: every fused result carries vector_rank = the segment's 1-based position
\* in the vector hits or len + 1 if absent, text_rank likewise, and
\* rrf_score = vectorWeight/(60 + vector_rank) + textWeight/(60 + text_rank);
\* in the SHORT path vectorWeight = alpha and textWeight = 1 - alpha.
C6_RanksAndScore ==
    Fused =>
        \A n \in DOMAIN combined_results :
            LET r  == combined_results[n]
                vr == IF \E i \in DOMAIN vector_results : vector_results[i] = r.id
                      THEN CHOOSE i \in DOMAIN vector_results : vector_results[i] = r.id
                      ELSE Len(vector_results) + 1
                tr == IF \E i \in DOMAIN text_results : text_results[i] = r.id
                      THEN CHOOSE i \in DOMAIN text_results : text_results[i] = r.id
                      ELSE Len(text_results) + 1
            IN  /\ r.vector_rank = vr
                /\ r.text_rank = tr
                /\ r.rrf_den > 0
                /\ r.rrf_num * ((60 + vr) * (60 + tr))
                     = r.rrf_den * (vector_weight * (60 + tr) + text_weight * (60 + vr))
                /\ mode = "short" => text_weight = 10 - vector_weight

\* a SHORT-path fusion with a segment missing from the vector hits and
\* another one missing from the text hits
C6_Witness ==
    /\ fpc = "fused" /\ mode = "short" /\ vector_weight = 6
    /\ \E n \in DOMAIN combined_results :
          combined_results[n].vector_rank = Len(vector_results) + 1
    /\ \E n \in DOMAIN combined_results :
          /\ combined_results[n].text_rank = Len(text_results) + 1
          /\ combined_results[n].vector_rank = 2

\* C7 as stated: a segment present in both lists scores strictly higher than
\* a segment present in only one list; for vectorHits=[A,B,C], textHits=[C,D]
\* and weights 0.5/0.5 the fused list holds A,B,C,D once each and
\* rrf_score(C) > rrf_score(A).   (A,B,C,D are the segments 1,2,3,4.)
C7_Original ==
    fpc = "fused" =>
        /\ \A i \in DOMAIN combined_results : \A j \in DOMAIN combined_results :
              LET a == combined_results[i]
                  b == combined_results[j]
              IN  ( /\ a.id \in Range(vector_results) \cap Range(text_results)
                    /\ b.id \notin Range(vector_results) \cap Range(text_results) )
                  => ScoreGt(a, b)
        /\ ( /\ vector_results = <<1, 2, 3>> /\ text_results = <<3, 4>>
             /\ vector_weight = 5 /\ text_weight = 5 )
           => \E i \in DOMAIN combined_results : \E j \in DOMAIN combined_results :
                 /\ combined_results[i].id = 3 /\ combined_results[j].id = 1
                 /\ ScoreGt(combined_results[i], combined_results[j])

\* C7 amended: a segment present in both lists scores strictly higher than a
\* segment present in only one list whenever it ranks ahead of that segment
\* in the list the two share; for vectorHits=[A,B,C], textHits=[C,D] and
\* weights 0.5/0.5 the fused list holds A,B,C,D once each and C and A tie:
\* rrf_score(C) = rrf_score(A) = 0.5/61 + 0.5/63.
C7_Amended ==
    fpc = "fused" =>
        /\ \A i \in DOMAIN combined_results : \A j \in DOMAIN combined_results :
              LET a == combined_results[i]
                  b == combined_results[j]
                  both == Range(vector_results) \cap Range(text_results)
              IN  ( /\ a.id \in both
                    /\ b.id \notin both
                    /\ \/ b.id \in Range(vector_results) /\ a.vector_rank < b.vector_rank
                       \/ b.id \in Range(text_results) /\ a.text_rank < b.text_rank )
                  => a.rrf_num * b.rrf_den > b.rrf_num * a.rrf_den
        /\ ( /\ vector_results = <<1, 2, 3>> /\ text_results = <<3, 4>>
             /\ vector_weight = 5 /\ text_weight = 5 )
           => /\ Len(combined_results) = 4
              /\ {combined_results[i].id : i \in DOMAIN combined_results} = {1, 2, 3, 4}
              /\ \E i \in DOMAIN combined_results : \E j \in DOMAIN combined_results :
                    /\ combined_results[i].id = 3 /\ combined_results[j].id = 1
                    /\ combined_results[i].rrf_num * combined_results[j].rrf_den
                         = combined_results[j].rrf_num * combined_results[i].rrf_den
                    /\ combined_results[i].rrf_num * (61 * 63)
                         = combined_results[i].rrf_den * (5 * 63 + 5 * 61)

\* the documented example has been fused
C7_Witness ==
    /\ fpc = "fused"
    /\ vector_results = <<1, 2, 3>> /\ text_results = <<3, 4>>
    /\ vector_weight = 5 /\ text_weight = 5
    /\ Len(combined_results) = 4

\* C8: for every fused list and all caps maxDocs, maxSnippetsPerDoc >= 0 the
\* grouping returns at most maxDocs blocks, each with at least one and at
\* most maxSnippetsPerDoc snippets; blocks come in the order in which their
\* documents first appear in the fused ranking, and the snippets of a block
\* keep the order of the fused ranking.
C8_GroupingCaps ==
    fpc = "grouped" =>
        LET pos(seg)  == CHOOSE n \in DOMAIN combined_results : combined_results[n].id = seg
            first(d)  == CHOOSE n \in DOMAIN combined_results :
                            /\ combined_results[n].document_id = d
                            /\ \A m \in DOMAIN combined_results :
                                  combined_results[m].document_id = d => n <= m
        IN  /\ Len(blocks) <= max_docs
            /\ \A b \in DOMAIN blocks :
                  /\ Len(blocks[b].snippets) >= 1
                  /\ Len(blocks[b].snippets) <= max_snippets
                  /\ \A k \in DOMAIN blocks[b].snippets :
                        /\ \E n \in DOMAIN combined_results :
                              /\ combined_results[n].id = blocks[b].snippets[k]
                              /\ combined_results[n].document_id = blocks[b].document_id
                        /\ \A l \in DOMAIN blocks[b].snippets :
                              k < l => pos(blocks[b].snippets[k]) < pos(blocks[b].snippets[l])
            /\ \A b \in DOMAIN blocks : \A c \in DOMAIN blocks :
                  b < c => first(blocks[b].document_id) < first(blocks[c].document_id)

\* both caps bite: three documents in the ranking but two blocks, and a
\* document with two ranked segments but one snippet
C8_Witness ==
    /\ fpc = "grouped"
    /\ max_docs = 2 /\ max_snippets = 1
    /\ Len(blocks) = 2
    /\ Cardinality({combined_results[n].document_id : n \in DOMAIN combined_results}) = 3
    /\ \E b \in DOMAIN blocks :
          Cardinality({n \in DOMAIN combined_results :
                          combined_results[n].document_id = blocks[b].document_id}) = 2

\* ------------------------------------------------------------------------
\* Properties of the context truncation (checked under SpecTrunc)
\* ------------------------------------------------------------------------
\* C9: truncation is idempotent: truncating the truncated bundle again with
\* the same budget returns an equal bundle (blocks, snippets, context_text).
C9_TruncationIdempotent ==
    tpc = "twice" =>
        /\ retruncated.blocks = truncated.blocks
        /\ retruncated.context_text = truncated.context_text
        /\ retruncated = truncated

\* the first pass cut a snippet and the result is still over the budget, so
\* that the second pass runs the whole truncation again
C9_Witness ==
    /\ tpc = "twice"
    /\ truncated # context
    /\ \E b \in DOMAIN truncated.blocks : \E k \in DOMAIN truncated.blocks[b].snippets :
          truncated.blocks[b].snippets[k].dots = 3
    /\ TextLen(truncated.context_text) > max_context_chars

\* C10: the bundle returned by truncate_context_by_tokens fits the budget:
\* the length of its rebuilt context_text is at most max_context_chars.
C10_FitsBudget ==
    tpc \in {"once", "twice"} =>
        TextLen(truncated.context_text) <= max_context_chars

\* ------------------------------------------------------------------------
\* Properties of the orchestrator (checked under Spec)
\* ------------------------------------------------------------------------
Count(label) == Cardinality({i \in DOMAIN calls : calls[i] = label})

\* C1: the probe and the routing score are computed before any path runs; if
\* score >= threshold the SHORT path runs exactly once and the LONG path runs
\* afterwards iff should_escalate_from_short returns true; if score < threshold
\* the LONG path runs directly and the SHORT path never runs; the returned
\* answer is the LONG answer whenever LONG ran, otherwise the SHORT answer.
\* (A run in which a collaborator raised ends in the except branch.)
C1_ControlFlow ==
    LET shortRuns == Count("run_short_path")
        longRuns  == Count("run_long_path")
        raised    == answer.kind = "error_orchestrator"
        routed    == pc = "done" /\ Len(calls) >= 2 /\ ~raised
    IN  /\ shortRuns <= 1 /\ longRuns <= 1
        /\ shortRuns + longRuns > 0 =>
              /\ calls[1] = "compute_probe_signals"
              /\ calls[2] = "compute_routing_score"
        /\ (routed /\ score >= config.router.threshold) =>
              /\ shortRuns = 1
              /\ calls[3] = "run_short_path"
              /\ longRuns = 1 <=> should_escalate_from_short(short_result, signals, config)
              /\ longRuns = 1 => calls[Len(calls)] = "run_long_path"
        /\ (routed /\ score < config.router.threshold) =>
              /\ shortRuns = 0
              /\ calls = <<"compute_probe_signals", "compute_routing_score", "run_long_path">>
        /\ (pc = "done" /\ longRuns = 1 /\ ~raised) => answer = long_result.answer
        /\ (pc = "done" /\ longRuns = 0 /\ shortRuns = 1) => answer = short_result.answer

\* a request whose score equals the threshold went SHORT, escalated, and
\* returned the LONG answer
C1_Witness ==
    /\ pc = "done"
    /\ score = config.router.threshold
    /\ calls = <<"compute_probe_signals", "compute_routing_score", "run_short_path",
                 "should_escalate_from_short", "run_long_path">>
    /\ short_result.success
    /\ answer.kind = "long_answer"

Decided == Count("should_escalate_from_short") = 1

\* C2: should_escalate_from_short returns true iff at least one escalation
\* condition holds: SHORT failed or has no context, total_segments <
\* min_strong_segments, total_docs > max_distinct_docs, avg_vec_sim <
\* min_avg_vec_sim, fts_hit_rate < min_fts_hit_rate, or the conflict heuristic
\* fires; in particular total_docs = 5 with max_distinct_docs = 4 escalates
\* whatever the other signals.
C2_EscalationOr ==
    Decided =>
        /\ escalate <=>
              \/ ~short_result.success
              \/ short_result.context = None
              \/ ( /\ short_result.success /\ short_result.context # None
                   /\ \/ short_result.debug_info.total_segments
                            < config.escalation.min_strong_segments
                      \/ short_result.debug_info.total_docs
                            > config.escalation.max_distinct_docs
                      \/ signals.avg_vec_sim < config.escalation.min_avg_vec_sim
                      \/ signals.fts_hit_rate < config.escalation.min_fts_hit_rate
                      \/ has_conflicts(short_result.context.context_text) )
        /\ ( /\ short_result.success /\ short_result.context # None
             /\ short_result.debug_info.total_docs = 5
             /\ config.escalation.max_distinct_docs = 4 ) => escalate

\* an escalation with exactly one condition: total_docs = 5 > 4, enough
\* segments, strong probe signals, no conflict words
C2_Witness ==
    /\ Decided /\ escalate
    /\ short_result.success /\ short_result.context # None
    /\ short_result.debug_info.total_docs = 5
    /\ short_result.debug_info.total_segments >= config.escalation.min_strong_segments
    /\ signals.avg_vec_sim >= config.escalation.min_avg_vec_sim
    /\ signals.fts_hit_rate >= config.escalation.min_fts_hit_rate
    /\ ~has_conflicts(short_result.context.context_text)

\* C3: the route is a function of (signals, config): score = w_avg_vec_sim *
\* avgVecSim + w_fts * ftsHitRate + w_share * topDocShare + w_docs *
\* (uniqueDocs / 10) + w_quotes * [hasQuotesOrIds] + w_temporal *
\* [hasCompareTemporalConditions], and the route is SHORT exactly when
\* score >= threshold (equality routes SHORT), otherwise LONG.
C3_RouteIsScoreVsThreshold ==
    LET w == config.router.weights
        \* in thousandths: tenths times hundredths; uniqueDocs/10 = 10 * uniqueDocs hundredths
        expected ==
            w.avg_vec_sim * signals.avg_vec_sim
            + w.fts_hit_rate * signals.fts_hit_rate
            + w.top_doc_share * signals.top_doc_share
            + w.unique_docs * 10 * signals.unique_docs
            + (IF signals.has_quotes_or_ids THEN 100 * w.has_quotes_or_ids ELSE 0)
            + (IF signals.has_compare_temporal_conditions
               THEN 100 * w.has_compare_temporal_conditions ELSE 0)
    IN  /\ (Len(calls) >= 2 /\ answer # error_answer("router")) => score = expected
        /\ path # "none" =>
              /\ path = "SHORT" <=> expected >= config.router.threshold
              /\ path = "LONG" <=> expected < config.router.threshold

\* a query whose score is exactly the threshold has been routed SHORT
C3_Witness ==
    /\ path = "SHORT"
    /\ score = config.router.threshold
    /\ signals.unique_docs = 2

\* C4: whenever a sub-step of run_short_path throws, the returned
\* ShortPathResult has success = false, error = the exception message, and
\* that message in answer.
C4_ShortPathFailureResult ==
    (Count("run_short_path") = 1 /\ fault # "none") =>
        /\ short_result.success = FALSE
        /\ short_result.error = fault
        /\ short_result.answer.text = fault

\* ------------------------------------------------------------------------
\* Response truncation (token_manager.validate_response_length)
\*
\* A text is a sequence of runs [ch, n]: n >= 1 copies of the character ch,
\* neighbouring runs holding different characters.  "a" stands for every
\* character other than '.', ' ' and '\n'.
\* ------------------------------------------------------------------------
MaxRuns == 3        \* most runs of a generated response

RECURSIVE TxtLen(_)
\* len(text)
TxtLen(text) == IF text = <<>> THEN 0 ELSE text[1].n + TxtLen(Tail(text))

\* a + b
TxtConcat(a, b) ==
    IF a = <<>> THEN b
    ELSE IF b = <<>> THEN a
    ELSE IF a[Len(a)].ch = b[1].ch
         THEN SubSeq(a, 1, Len(a) - 1)
                \o <<[ch |-> b[1].ch, n |-> a[Len(a)].n + b[1].n]>> \o Tail(b)
         ELSE a \o b

RECURSIVE TxtPrefix(_, _)
\* the first k characters of text (all of it when it is shorter)
TxtPrefix(text, k) ==
    IF k <= 0 \/ text = <<>> THEN <<>>
    ELSE IF text[1].n >= k THEN <<[ch |-> text[1].ch, n |-> k]>>
    ELSE <<text[1]>> \o TxtPrefix(Tail(text), k - text[1].n)

\* text[:k] as Python slices: a negative k counts from the end
PySlice(text, k) ==
    TxtPrefix(text, IF k >= 0 THEN k ELSE Max(0, TxtLen(text) + k))

RECURSIVE RFind(_, _)
\* text.rfind(c) for a single character c: 0-based index or -1
RFind(text, c) ==
    IF text = <<>> THEN -1
    ELSE IF text[Len(text)].ch = c THEN TxtLen(text) - 1
    ELSE RFind(SubSeq(text, 1, Len(text) - 1), c)

RECURSIVE RFindParagraph(_)
\* text.rfind('\n\n'): 0-based index of the last pair of newlines or -1
RFindParagraph(text) ==
    IF text = <<>> THEN -1
    ELSE IF text[Len(text)].ch = "\n" /\ text[Len(text)].n >= 2 THEN TxtLen(text) - 2
    ELSE RFindParagraph(SubSeq(text, 1, Len(text) - 1))

\* len(text) // 4
estimate_tokens(text) == TxtLen(text) \div 4

\* _smart_truncate; p > len(text) * 0.8 is 10 * p > 8 * len(text)
smart_truncate(text) ==
    LET last_period    == RFind(text, ".")
        last_paragraph == RFindParagraph(text)
        last_newline   == RFind(text, "\n")
        last_space     == RFind(text, " ")
    IN  IF last_period >= 0 /\ 10 * last_period > 8 * TxtLen(text)
            THEN PySlice(text, last_period + 1)
        ELSE IF last_paragraph >= 0 /\ 10 * last_paragraph > 8 * TxtLen(text)
            THEN PySlice(text, last_paragraph)
        ELSE IF last_newline >= 0 /\ 10 * last_newline > 9 * TxtLen(text)
            THEN PySlice(text, last_newline)
        ELSE IF 10 * last_space > 9 * TxtLen(text)
            THEN PySlice(text, last_space)
        ELSE text

\* "\n\n[Response truncated due to length limits]" (43 characters)
TruncationNotice ==
    << [ch |-> "\n", n |-> 2], [ch |-> "a", n |-> 9], [ch |-> " ", n |-> 1],
       [ch |-> "a", n |-> 9],  [ch |-> " ", n |-> 1], [ch |-> "a", n |-> 3],
       [ch |-> " ", n |-> 1],  [ch |-> "a", n |-> 2], [ch |-> " ", n |-> 1],
       [ch |-> "a", n |-> 6],  [ch |-> " ", n |-> 1], [ch |-> "a", n |-> 7] >>

validate_response_length(text, max_tokens) ==
    IF estimate_tokens(text) <= max_tokens THEN text
    ELSE LET max_chars == max_tokens * 4 - 200
         IN  IF TxtLen(text) > max_chars
             THEN TxtConcat(smart_truncate(PySlice(text, max_chars)), TruncationNotice)
             ELSE text

\* the characters and run lengths of the generated responses
TxtChars == {"a", ".", " ", "\n"}

RunLens == {1, 2, 150, 250, 20000}

TxtRuns == [ch : TxtChars, n : RunLens]

RECURSIVE TextsOfRuns(_)
\* the texts of exactly k runs
TextsOfRuns(k) ==
    IF k = 0 THEN {<<>>}
    ELSE {Append(t, r) : t \in TextsOfRuns(k - 1), r \in TxtRuns}

Responses(max_runs) ==
    {t \in UNION {TextsOfRuns(k) : k \in 0..max_runs} :
        \A i \in 1..(Len(t) - 1) : t[i].ch # t[i + 1].ch}

\* AGENT_MAX_RESPONSE_TOKENS: any integer, 4000 when unset
ResponseTokenLimits == {10, 49, 50, 60, 4000}

RespInit ==
    /\ rpc = "input"
    /\ response \in Responses(MaxRuns)
    /\ max_response_tokens \in ResponseTokenLimits
    /\ validated = <<>>
    /\ FuseIdle /\ TruncIdle /\ OrchIdle /\ XIdle_but_r /\ ZIdle

\* validated_answer = validate_response_length(answer, config)
Validate ==
    /\ rpc = "input"
    /\ validated' = validate_response_length(response, max_response_tokens)
    /\ rpc' = "validated"
    /\ UNCHANGED <<response, max_response_tokens>>
    /\ UNCHANGED <<fvars, tvars, ovars, xvars_but_r, zvars>>

RespNext == Validate

SpecResp == RespInit /\ [][RespNext]_vars

\* C11: validate_response_length returns the text unchanged when
\* len(text) div 4 <= max_response_tokens; otherwise the result is a prefix of
\* the text of at most max_response_tokens*4 - 200 characters followed by the
\* truncation notice, and its estimated tokens do not exceed the budget.
C11_ResponseWithinBudget ==
    rpc = "validated" =>
        IF estimate_tokens(response) <= max_response_tokens
        THEN validated = response
        ELSE /\ \E k \in 0..Max(0, max_response_tokens * 4 - 200) :
                    validated = TxtConcat(TxtPrefix(response, k), TruncationNotice)
             /\ estimate_tokens(validated) <= max_response_tokens

\* ------------------------------------------------------------------------
\* JSON repair (token_manager.ensure_json_validity)
\*
\* A string is a sequence of one-character strings; json.loads is a
\* recursive-descent recogniser of the JSON grammar as Python's json module
\* accepts it (strict mode: no control character inside a string).
\* ------------------------------------------------------------------------
MaxJsonLen == 3     \* longest string handed to ensure_json_validity

JsonWhitespace == {" ", "\t", "\n", "\r"}

Digits == {"0", "1", "2", "3", "4", "5", "6", "7", "8", "9"}

HexDigits == Digits \cup {"a", "b", "c", "d", "e", "f", "A", "B", "C", "D", "E", "F"}

\* the characters a backslash may be followed by, besides u
SimpleEscapes == {"\"", "\\", "/", "b", "f", "n", "r", "t"}

\* characters below 0x20, which json.loads rejects inside a string
ControlChars == {"\n", "\t", "\r"}

\* s[i], or "" past the end
At(s, i) == IF i \in DOMAIN s THEN s[i] ELSE ""

RECURSIVE SkipWhitespace(_, _)
\* index of the first character at or after i that is not JSON whitespace
SkipWhitespace(s, i) ==
    IF At(s, i) \in JsonWhitespace THEN SkipWhitespace(s, i + 1) ELSE i

RECURSIVE SkipDigits(_, _)
SkipDigits(s, i) == IF At(s, i) \in Digits THEN SkipDigits(s, i + 1) ELSE i

\* does s hold the word w at index i
StartsWith(s, i, w) ==
    /\ i + Len(w) - 1 <= Len(s)
    /\ \A k \in 1..Len(w) : s[i + k - 1] = w[k]

RECURSIVE ScanString(_, _)
\* i is just after the opening quote: index after the closing quote, 0 if
\* the string is not terminated or holds an invalid character or escape
ScanString(s, i) ==
    IF i > Len(s) THEN 0
    ELSE IF s[i] = "\"" THEN i + 1
    ELSE IF s[i] \in ControlChars THEN 0
    ELSE IF s[i] = "\\"
         THEN IF At(s, i + 1) \in SimpleEscapes THEN ScanString(s, i + 2)
              ELSE IF /\ At(s, i + 1) = "u"
                      /\ \A k \in 2..5 : At(s, i + k) \in HexDigits
                   THEN ScanString(s, i + 6)
              ELSE 0
    ELSE ScanString(s, i + 1)

\* a number at index i: -?(0|[1-9][0-9]*)(.[0-9]+)?([eE][-+]?[0-9]+)?
\* index after it, or 0
ScanNumber(s, i) ==
    LET start == IF At(s, i) = "-" THEN i + 1 ELSE i
        int_end == IF At(s, start) = "0" THEN start + 1
                   ELSE IF At(s, start) \in Digits THEN SkipDigits(s, start)
                   ELSE 0
        frac_end == IF int_end # 0 /\ At(s, int_end) = "." /\ At(s, int_end + 1) \in Digits
                    THEN SkipDigits(s, int_end + 1) ELSE int_end
        exp_at == IF At(s, frac_end + 1) \in {"+", "-"} THEN frac_end + 2 ELSE frac_end + 1
        exp_end == IF frac_end # 0 /\ At(s, frac_end) \in {"e", "E"} /\ At(s, exp_at) \in Digits
                   THEN SkipDigits(s, exp_at) ELSE frac_end
    IN  exp_end

JsonLiterals ==
    { <<"n", "u", "l", "l">>, <<"t", "r", "u", "e">>, <<"f", "a", "l", "s", "e">>,
      <<"N", "a", "N">>, <<"I", "n", "f", "i", "n", "i", "t", "y">>,
      <<"-", "I", "n", "f", "i", "n", "i", "t", "y">> }

RECURSIVE ScanValue(_, _)
RECURSIVE ScanArrayRest(_, _)
RECURSIVE ScanObjectRest(_, _)

\* i is after a value of an array: ',' value ... ']'
ScanArrayRest(s, i) ==
    LET j == SkipWhitespace(s, i)
    IN  IF At(s, j) = "]" THEN j + 1
        ELSE IF At(s, j) = ","
             THEN LET v == ScanValue(s, SkipWhitespace(s, j + 1))
                  IN  IF v = 0 THEN 0 ELSE ScanArrayRest(s, v)
        ELSE 0

\* i is at the opening quote of a key: "key" : value, then ',' ... or '}'
ScanObjectRest(s, i) ==
    IF At(s, i) # "\"" THEN 0
    ELSE LET k == ScanString(s, i + 1)
             c == SkipWhitespace(s, k)
             v == IF k = 0 \/ At(s, c) # ":" THEN 0
                  ELSE ScanValue(s, SkipWhitespace(s, c + 1))
             e == SkipWhitespace(s, v)
         IN  IF v = 0 THEN 0
             ELSE IF At(s, e) = "}" THEN e + 1
             ELSE IF At(s, e) = "," THEN ScanObjectRest(s, SkipWhitespace(s, e + 1))
             ELSE 0

\* a JSON value at index i: index after it, or 0
ScanValue(s, i) ==
    IF At(s, i) = "\"" THEN ScanString(s, i + 1)
    ELSE IF At(s, i) = "["
         THEN LET j == SkipWhitespace(s, i + 1)
              IN  IF At(s, j) = "]" THEN j + 1
                  ELSE LET v == ScanValue(s, j)
                       IN  IF v = 0 THEN 0 ELSE ScanArrayRest(s, v)
    ELSE IF At(s, i) = "{"
         THEN LET j == SkipWhitespace(s, i + 1)
              IN  IF At(s, j) = "}" THEN j + 1 ELSE ScanObjectRest(s, j)
    ELSE IF \E w \in JsonLiterals : StartsWith(s, i, w)
         THEN i + Len(CHOOSE w \in JsonLiterals : StartsWith(s, i, w))
    ELSE ScanNumber(s, i)

\* json.loads(s) succeeds
ParsesAsJson(s) ==
    LET v == ScanValue(s, SkipWhitespace(s, 1))
    IN  v # 0 /\ SkipWhitespace(s, v) = Len(s) + 1

RECURSIVE Strip(_)
\* s.strip(): whitespace removed at both ends
Strip(s) ==
    IF s = <<>> THEN s
    ELSE IF s[1] \in JsonWhitespace THEN Strip(Tail(s))
    ELSE IF s[Len(s)] \in JsonWhitespace THEN Strip(SubSeq(s, 1, Len(s) - 1))
    ELSE s

RECURSIVE RStrip(_, _)
\* s.rstrip(chars)
RStrip(s, chars) ==
    IF s # <<>> /\ s[Len(s)] \in chars THEN RStrip(SubSeq(s, 1, Len(s) - 1), chars)
    ELSE s

\* s.count(c)
CountChar(s, c) == Cardinality({i \in DOMAIN s : s[i] = c})

\* c repeated n times, nothing when n <= 0 (for _ in range(n))
Repeat(c, n) == [i \in 1..n |-> c]

RECURSIVE EscapeQuotes(_)
\* s.replace('"', '\\"')
EscapeQuotes(s) ==
    IF s = <<>> THEN <<>>
    ELSE (IF s[1] = "\"" THEN <<"\\", "\"">> ELSE <<s[1]>>) \o EscapeQuotes(Tail(s))

PartialContentLen == 100

\* '{"error": "Response truncated and could not be repaired", "partial_content": "'
FallbackHead ==
    << "{", "\"", "e", "r", "r", "o", "r", "\"", ":", " ", "\"", "R", 
       "e", "s", "p", "o", "n", "s", "e", " ", "t", "r", "u", "n", "c", 
       "a", "t", "e", "d", " ", "a", "n", "d", " ", "c", "o", "u", "l", 
       "d", " ", "n", "o", "t", " ", "b", "e", " ", "r", "e", "p", "a", 
       "i", "r", "e", "d", "\"", ",", " ", "\"", "p", "a", "r", "t", 
       "i", "a", "l", "_", "c", "o", "n", "t", "e", "n", "t", "\"", ":", 
       " ", "\"" >>

\* '..."}'
FallbackTail == << ".", ".", ".", "\"", "}" >>

ensure_json_validity(s) ==
    IF ParsesAsJson(s) THEN s
    ELSE LET stripped == RStrip(RStrip(Strip(s), {","}), JsonWhitespace)
             open_braces   == CountChar(stripped, "{") - CountChar(stripped, "}")
             open_brackets == CountChar(stripped, "[") - CountChar(stripped, "]")
             open_quotes   == CountChar(stripped, "\"") % 2
             fixed == stripped \o Repeat("\"", open_quotes)
                               \o Repeat("]", open_brackets)
                               \o Repeat("}", open_braces)
         IN  IF ParsesAsJson(fixed) THEN fixed
             ELSE FallbackHead
                    \o SubSeq(EscapeQuotes(s), 1, Min(PartialContentLen, Len(EscapeQuotes(s))))
                    \o FallbackTail

\* the characters of the strings handed to ensure_json_validity
JsonChars == {"{", "}", "[", "]", "\"", ",", "\\", "\n", "1", "a"}

JsonInputs == UNION {[1..k -> JsonChars] : k \in 0..MaxJsonLen}

JsonInit ==
    /\ jpc = "input"
    /\ json_str \in JsonInputs
    /\ repaired = <<>>
    /\ FuseIdle /\ TruncIdle /\ OrchIdle /\ XIdle_but_j /\ ZIdle

\* return ensure_json_validity(response)
EnsureJson ==
    /\ jpc = "input"
    /\ repaired' = ensure_json_validity(json_str)
    /\ jpc' = "returned"
    /\ UNCHANGED json_str
    /\ UNCHANGED <<fvars, tvars, ovars, xvars_but_j, zvars>>

JsonNext == EnsureJson

SpecJson == JsonInit /\ [][JsonNext]_vars

\* C12: the result of ensure_json_validity parses as valid JSON, the fallback
\* object included, and an input that already parses is returned unchanged.
C12_RepairedParses ==
    jpc = "returned" =>
        /\ ParsesAsJson(repaired)
        /\ ParsesAsJson(json_str) => repaired = json_str

\* ------------------------------------------------------------------------
\* Further properties of the orchestrator (checked under Spec)
\* ------------------------------------------------------------------------
\* the SHORT path succeeded on a retrieval that returned no hit at all
EmptyShortContext ==
    /\ short_result.success
    /\ short_result.context.blocks = <<>>
    /\ short_result.context.context_text = <<>>

\* C13: when the SHORT path succeeds on a retrieval with zero hits (no
\* blocks, empty context_text), should_escalate_from_short returns true
\* under every escalation configuration.
C13_EmptyContextEscalates ==
    (Decided /\ EmptyShortContext) => escalate

\* C14 as stated: for every router configuration, if a signal vector is
\* routed SHORT then every vector that differs from it only by a larger
\* avg_vec_sim is routed SHORT as well.
C14_Original ==
    path = "SHORT" =>
        \A sig \in SignalSpace :
            (sig = [signals EXCEPT !.avg_vec_sim = sig.avg_vec_sim]
             /\ sig.avg_vec_sim > signals.avg_vec_sim) => RoutedShort(sig, config)

\* C14 amended: the same, for the router configurations whose avg_vec_sim
\* weight is not negative.
C14_Amended ==
    (path = "SHORT" /\ config.router.weights.avg_vec_sim >= 0) =>
        \A sig \in SignalSpace :
            (sig = [signals EXCEPT !.avg_vec_sim = sig.avg_vec_sim]
             /\ sig.avg_vec_sim > signals.avg_vec_sim) => RoutedShort(sig, config)

\* a query routed SHORT that a smaller avg_vec_sim would have sent to LONG,
\* and that has a neighbour of larger avg_vec_sim
C14_Witness ==
    /\ path = "SHORT"
    /\ config.router.weights.avg_vec_sim > 0
    /\ signals.avg_vec_sim = 60
    /\ ~RoutedShort([signals EXCEPT !.avg_vec_sim = 10], config)
    /\ RoutedShort([signals EXCEPT !.avg_vec_sim = 90], config)

\* C15: with the default weights and threshold a query whose
\* has_compare_temporal_conditions is true scores below the threshold and is
\* sent to LONG directly, the SHORT path never running.
C15_TemporalRoutesLong ==
    (/\ path # "none"
     /\ config.router = [weights |-> DefaultWeights, threshold |-> 500]
     /\ signals.has_compare_temporal_conditions) =>
        /\ score < config.router.threshold
        /\ path = "LONG"
        /\ Count("run_short_path") = 0

\* C16: smart_handle_message returns an answer string on every run; when the
\* probe, the router or the LONG path raises, or the SHORT path fails, the
\* string returned carries the error message.
C16_AlwaysAnswers ==
    pc = "done" =>
        /\ answer.kind # "none"
        /\ (Count("compute_routing_score") = 0) => answer = error_answer("probe")
        /\ (Count("compute_routing_score") = 1 /\ path = "none")
              => answer = error_answer("router")
        /\ (Count("run_long_path") = 1 /\ long_result = NoLongResult)
              => answer = error_answer("long_path")
        /\ (Count("run_long_path") = 0 /\ Count("run_short_path") = 1 /\ fault # "none")
              => answer.text = fault

\* the SHORT path failed, the request escalated, and the LONG path raised:
\* the caller received the error string
C16_Witness ==
    /\ pc = "done"
    /\ ~short_result.success
    /\ calls = <<"compute_probe_signals", "compute_routing_score", "run_short_path",
                 "should_escalate_from_short", "run_long_path">>
    /\ answer = error_answer("long_path")

\* ------------------------------------------------------------------------
\* build_context_short_path: the embedding, then the vector search and the
\* text search as two tasks awaited by asyncio.gather, then fusion and
\* grouping
\* ------------------------------------------------------------------------
\* config.short_top_docs and config.short_per_doc (defaults)
ShortTopDocs == 15

ShortPerDoc == 3

\* the hit lists the store can answer a search with
GatherHits == {<<>>, <<1, 2>>, <<3, 1>>, <<2, 4, 3>>}

\* one request: whether the embedding service and each search succeed, and
\* the hits each search returns when it does
GatherStores ==
    [embed_ok : BOOLEAN, vector_ok : BOOLEAN, text_ok : BOOLEAN,
     vector_hits : GatherHits, text_hits : GatherHits, alpha : ShortAlphas]

TaskNames == {"vector_task", "text_task"}

\* the value a finished task holds
TaskResult(t) == IF t = "vector_task" THEN store.vector_hits ELSE store.text_hits

TaskSucceeds(t) == IF t = "vector_task" THEN store.vector_ok ELSE store.text_ok

GatherInit ==
    /\ gpc = "start"
    /\ store \in GatherStores
    /\ tasks = [t \in TaskNames |-> "none"]
    /\ finished = <<>>
    /\ gathered = [vector_results |-> <<>>, text_results |-> <<>>]
    /\ final_results = <<>>
    /\ context_blocks = <<>>
    /\ FuseIdle /\ TruncIdle /\ OrchIdle /\ XIdle_but_g /\ ZIdle

\* query_embedding = embedding_service.generate_embedding(query)
Embed ==
    /\ gpc = "start"
    /\ gpc' = IF store.embed_ok THEN "embedded" ELSE "raised"
    /\ UNCHANGED <<store, tasks, finished, gathered, final_results, context_blocks>>
    /\ UNCHANGED <<fvars, tvars, ovars, xvars_but_g, zvars>>

\* vector_task = asyncio.create_task(...); text_task = asyncio.create_task(...)
CreateTasks ==
    /\ gpc = "embedded"
    /\ tasks' = [t \in TaskNames |-> "running"]
    /\ gpc' = "gathering"
    /\ UNCHANGED <<store, finished, gathered, final_results, context_blocks>>
    /\ UNCHANGED <<fvars, tvars, ovars, xvars_but_g, zvars>>

\* the thread of a task returns or raises; a task keeps running after the
\* gather has raised for the other one (gather does not cancel it)
TaskFinishes(t) ==
    /\ tasks[t] = "running"
    /\ tasks' = [tasks EXCEPT ![t] = IF TaskSucceeds(t) THEN "done" ELSE "failed"]
    /\ finished' = Append(finished, t)
    /\ UNCHANGED <<gpc, store, gathered, final_results, context_blocks>>
    /\ UNCHANGED <<fvars, tvars, ovars, xvars_but_g, zvars>>

\* mutant of GatherReturns: the results are handed out in the order the
\* tasks finished
GatherReturns_completionOrder ==
    /\ gpc = "gathering"
    /\ \A t \in TaskNames : tasks[t] = "done"
    /\ gathered' = [vector_results |-> TaskResult(finished[1]),
                    text_results   |-> TaskResult(finished[2])]
    /\ gpc' = "gathered"
    /\ UNCHANGED <<store, tasks, finished, final_results, context_blocks>>
    /\ UNCHANGED <<fvars, tvars, ovars, xvars_but_g, zvars>>

\* vector_results, text_results = await asyncio.gather(vector_task, text_task):
\* both tasks are done, the results come in the order of the arguments
GatherReturns ==
    /\ gpc = "gathering"
    /\ \A t \in TaskNames : tasks[t] = "done"
    /\ gathered' = [vector_results |-> TaskResult("vector_task"),
                    text_results   |-> TaskResult("text_task")]
    /\ gpc' = "gathered"
    /\ UNCHANGED <<store, tasks, finished, final_results, context_blocks>>
    /\ UNCHANGED <<fvars, tvars, ovars, xvars_but_g, zvars>>

\* await asyncio.gather(...) raises the exception of the first task that
\* failed; build_context_short_path does not catch it
GatherRaises ==
    /\ gpc = "gathering"
    /\ \E t \in TaskNames : tasks[t] = "failed"
    /\ gpc' = "raised"
    /\ UNCHANGED <<store, tasks, finished, gathered, final_results, context_blocks>>
    /\ UNCHANGED <<fvars, tvars, ovars, xvars_but_g, zvars>>

\* steps 3 to 5: _hybrid_rerank_optimized, _group_results_optimized, return
BuildContext ==
    /\ gpc = "gathered"
    /\ \E order \in Perms(Range(gathered.vector_results) \cup Range(gathered.text_results)) :
          /\ final_results' = hybrid_rerank_optimized(gathered.vector_results,
                                   gathered.text_results, store.alpha, order)
          /\ context_blocks' = group_results_optimized(final_results', ShortTopDocs, ShortPerDoc)
    /\ gpc' = "returned"
    /\ UNCHANGED <<store, tasks, finished, gathered>>
    /\ UNCHANGED <<fvars, tvars, ovars, xvars_but_g, zvars>>

GatherNext ==
    \/ Embed \/ CreateTasks \/ (\E t \in TaskNames : TaskFinishes(t))
    \/ GatherReturns \/ GatherRaises \/ BuildContext

SpecGather == GatherInit /\ [][GatherNext]_vars

\* C17: the two searches run as concurrent tasks; under every interleaving
\* fusion starts only after both have completed, the fused result is built
\* from the vector hits and the text hits whichever finished first, and when
\* either search fails the call raises and returns no context.
C17_GatherBeforeFusion ==
    /\ gpc \in {"gathered", "returned"} =>
          /\ \A t \in TaskNames : tasks[t] = "done"
          /\ gathered = [vector_results |-> store.vector_hits,
                         text_results   |-> store.text_hits]
    /\ gpc = "returned" =>
          /\ \E order \in Perms(Range(store.vector_hits) \cup Range(store.text_hits)) :
                final_results = hybrid_rerank_optimized(store.vector_hits,
                                    store.text_hits, store.alpha, order)
          /\ context_blocks = group_results_optimized(final_results, ShortTopDocs, ShortPerDoc)
    /\ gpc # "returned" => (final_results = <<>> /\ context_blocks = <<>>)
    /\ (\E t \in TaskNames : tasks[t] = "failed") => gpc \in {"gathering", "raised"}
    /\ (gpc \in {"embedded", "gathering", "gathered", "returned"}) => store.embed_ok

\* the text search finished before the vector search and the context was
\* built from both
C17_Witness ==
    /\ gpc = "returned"
    /\ finished = <<"text_task", "vector_task">>
    /\ store.vector_hits = <<1, 2>> /\ store.text_hits = <<2, 4, 3>>
    /\ Len(final_results) = 4
    /\ context_blocks # <<>>

\* ------------------------------------------------------------------------
\* Streaming orchestrator (stream_smart_orchestration): the document
\* analysis and map-reduce routes, and the probe with the SHORT and LONG
\* routes of a regular chat request.  An event is modelled by the "type" of
\* its JSON payload; the payload of the response event is kept in s_response.
\* ------------------------------------------------------------------------
MaxSubqueries == 3  \* most subqueries generate_subqueries returns

\* DEFAULT_CONFIG: the default router and escalation settings
StreamConfig ==
    [router |-> [weights |-> DefaultWeights, threshold |-> 500],
     escalation |-> [min_strong_segments |-> 2, max_distinct_docs |-> 4,
                     min_avg_vec_sim |-> 60, min_fts_hit_rate |-> 10]]

\* the probe signals of the requests streamed
StreamSignals ==
    {sig \in SignalSpace :
        /\ sig.top_doc_share = 100 /\ sig.unique_docs = 1 /\ ~sig.has_quotes_or_ids
        /\ sig.avg_vec_sim \in {10, 90} /\ sig.fts_hit_rate \in {0, 80}}

\* the sub-steps of build_context_short_path that can raise
RetrievalFaults == {"embedding", "vector_search", "text_search"}

\* searches of each kind one call of build_context_short_path issues when
\* its sub-step f raises: both tasks are created once the embedding is there
SearchesIssued(f) == IF f = "embedding" THEN 0 ELSE 1

\* LLM calls one call of run_short_path issues when its sub-step f raises
LlmCallsIssued(f) == IF f \in {"none", "llm", "validation"} THEN 1 ELSE 0

\* what _should_early_exit returns besides None
EarlyExitReasons == {"sufficient_evidence", "time_budget", "token_budget"}

NoWork == [vector_searches |-> 0, text_searches |-> 0, llm_calls |-> 0, search_errors |-> 0]

NoLongProgress ==
    [subqueries |-> 0, i |-> 0, contexts |-> 0, early_exit |-> "None",
     synth_calls |-> 0, fault |-> "none",
     checked |-> <<>>, executed_subqueries |-> <<>>, evidence |-> <<>>]

\* json.dumps of a run of one character, without the enclosing quotes:
\* a quote or a backslash gets a backslash, a newline becomes \n
JsonDumpsRun(run) ==
    IF run.ch \in {"\"", "\\", "\n"}
    THEN [i \in 1..(2 * run.n) |->
            IF i % 2 = 1 THEN "\\" ELSE IF run.ch = "\n" THEN "n" ELSE run.ch]
    ELSE [i \in 1..run.n |-> run.ch]

RECURSIVE JsonDumpsStr(_)
\* json.dumps of a str, without the enclosing quotes
JsonDumpsStr(text) ==
    IF text = <<>> THEN <<>>
    ELSE JsonDumpsRun(text[1]) \o JsonDumpsStr(Tail(text))

\* '{"type": "response_complete"'
ResponseCompleteMember ==
    << "{", "\"", "t", "y", "p", "e", "\"", ":", " ", "\"", "r", "e", "s",
       "p", "o", "n", "s", "e", "_", "c", "o", "m", "p", "l", "e", "t", "e",
       "\"" >>

\* ', "content": "'
ContentKey ==
    << ",", " ", "\"", "c", "o", "n", "t", "e", "n", "t", "\"", ":", " ",
       "\"" >>

\* '{"type": "'
TypeKey ==
    << "{", "\"", "t", "y", "p", "e", "\"", ":", " ", "\"" >>

\* response_event = json.dumps({'type': 'response_complete', 'content': answer})
ResponseEvent(content) ==
    ResponseCompleteMember \o ContentKey \o JsonDumpsStr(content) \o <<"\"", "}">>

\* response[:k] as Python slices a str: a negative k counts from the end
StrSlice(str, k) ==
    SubSeq(str, 1, IF k >= 0 THEN Min(k, Len(str)) ELSE Max(0, Len(str) + k))

validate_json_response_length(response_event, max_tokens) ==
    IF Len(response_event) \div 4 <= max_tokens THEN ensure_json_validity(response_event)
    ELSE LET max_chars == max_tokens * 4 - 100
         IN  IF Len(response_event) > max_chars
             THEN ensure_json_validity(StrSlice(response_event, max_chars))
             ELSE ensure_json_validity(response_event)

\* the "type" member a client reads in the payload of an event
EventType(payload) ==
    IF ~ParsesAsJson(payload) THEN "not_json"
    ELSE IF StartsWith(payload, 1, ResponseCompleteMember) THEN "response_complete"
    ELSE IF StartsWith(payload, 1, TypeKey) THEN "other_type"
    ELSE "no_type"

\* the SHORT and LONG routes: validate_response_length on the answer, then
\* json.dumps and validate_json_response_length on the event.  The except
\* (UnicodeDecodeError, ValueError) branch is not reached: json.dumps of a str
\* does not raise and ensure_json_validity catches its own JSONDecodeError
ResponseValidated(content, max_tokens) ==
    LET response_event ==
            validate_json_response_length(
                ResponseEvent(validate_response_length(content, max_tokens)), max_tokens)
    IN  [answer |-> content, max_response_tokens |-> max_tokens,
         payload |-> response_event, type |-> EventType(response_event)]

\* the document routes: json.dumps alone
ResponseDumped(content, max_tokens) ==
    [answer |-> content, max_response_tokens |-> max_tokens,
     payload |-> ResponseEvent(content), type |-> EventType(ResponseEvent(content))]

NoResponse ==
    [answer |-> <<>>, max_response_tokens |-> 0, payload |-> <<>>, type |-> "none"]

\* the answers the LLM synthesizes: a short one, two of 104 characters in
\* the event (one opening with a quotation mark) and one of 153
StreamAnswers ==
    { <<[ch |-> "a", n |-> 20]>>,
      <<[ch |-> "a", n |-> 104]>>,
      <<[ch |-> "\"", n |-> 1], [ch |-> "a", n |-> 102]>>,
      <<[ch |-> "a", n |-> 152], [ch |-> ".", n |-> 1]>> }

\* config.max_response_tokens (AGENT_MAX_RESPONSE_TOKENS): 4000 when unset
StreamTokenLimits == {36, 4000}

\* the answer and the limit of a run; the long answers meet the small limit
StreamRequests ==
    {rq \in [answer : StreamAnswers, max_response_tokens : StreamTokenLimits] :
        TxtLen(rq.answer) > 20 => rq.max_response_tokens = 36}

\* the response events of the runs
ValidatedResponses ==
    [rq \in StreamRequests |-> ResponseValidated(rq.answer, rq.max_response_tokens)]

DumpedResponses ==
    [rq \in {r \in StreamRequests : TxtLen(r.answer) <= 20} |->
        ResponseDumped(rq.answer, rq.max_response_tokens)]

StreamInit ==
    /\ spc = "start"
    /\ s_signals = NoSignals /\ s_path = "none"
    /\ s_short_result = NoShortResult /\ s_escalate = FALSE
    /\ events = <<>> /\ work = NoWork /\ lp = NoLongProgress
    /\ s_response = NoResponse
    /\ FuseIdle /\ TruncIdle /\ OrchIdle /\ XIdle_but_s /\ ZIdle

\* if file_context: the document analysis workflow, whose result is yielded
\* as json.dumps({'type': 'response_complete', 'content': result})
StreamDocumentAnalysis ==
    /\ spc = "start"
    /\ s_path' = "DOCUMENT_ANALYSIS"
    /\ \E rq \in DOMAIN DumpedResponses : s_response' = DumpedResponses[rq]
    /\ events' = events \o <<"thinking_step", "thinking_step", "thinking_step",
                              "thinking_step", "thinking_complete",
                              s_response'.type>>
    /\ spc' = "done"
    /\ UNCHANGED <<s_signals, s_short_result, s_escalate, work, lp>>
    /\ UNCHANGED <<fvars, tvars, ovars, xvars_but_s, zvars>>

\* should_analyze_document raises (no event yet, the outer except yields the
\* error event) or analysis_tool.execute raises (after four progress events,
\* the except of _stream_document_analysis yields it)
StreamDocumentAnalysisRaises ==
    /\ spc = "start"
    /\ s_path' = "DOCUMENT_ANALYSIS"
    /\ \E in_tool \in BOOLEAN :
          events' = events \o (IF in_tool
                               THEN <<"thinking_step", "thinking_step",
                                      "thinking_step", "thinking_step", "error">>
                               ELSE <<"error">>)
    /\ spc' = "done"
    /\ UNCHANGED <<s_signals, s_short_result, s_escalate, work, lp, s_response>>
    /\ UNCHANGED <<fvars, tvars, ovars, xvars_but_s, zvars>>

\* if document_id: map_reduce_single_document, whose context_text is yielded
\* as json.dumps({'type': 'response_complete', 'content': ...})
StreamMapReduce ==
    /\ spc = "start"
    /\ s_path' = "MAP-REDUCE"
    /\ \E rq \in DOMAIN DumpedResponses : s_response' = DumpedResponses[rq]
    /\ events' = events \o <<"thinking_step", "thinking_step", "thinking_complete",
                              s_response'.type>>
    /\ spc' = "done"
    /\ UNCHANGED <<s_signals, s_short_result, s_escalate, work, lp>>
    /\ UNCHANGED <<fvars, tvars, ovars, xvars_but_s, zvars>>

\* map_reduce_single_document raises: the outer except yields the error event
StreamMapReduceRaises ==
    /\ spc = "start"
    /\ s_path' = "MAP-REDUCE"
    /\ events' = events \o <<"thinking_step", "error">>
    /\ spc' = "done"
    /\ UNCHANGED <<s_signals, s_short_result, s_escalate, work, lp, s_response>>
    /\ UNCHANGED <<fvars, tvars, ovars, xvars_but_s, zvars>>

\* step 1 and 2: the probe, the score and the route decision
StreamProbe ==
    /\ spc = "start"
    /\ \E sig \in StreamSignals :
          /\ s_signals' = sig
          /\ IF RoutedShort(sig, StreamConfig)
             THEN /\ s_path' = "SHORT"
                  /\ events' = events \o <<"thinking_step">>
                  /\ spc' = "short_stream"
             ELSE /\ s_path' = "LONG"
                  /\ events' = events \o <<"thinking_step", "thinking_step">>
                  /\ spc' = "long_plan"
    /\ UNCHANGED <<s_short_result, s_escalate, work, lp>>
    /\ UNCHANGED <<s_response, fvars, tvars, ovars, xvars_but_s, zvars>>

\* compute_probe_signals raises: the except branch yields an error event
StreamProbeRaises ==
    /\ spc = "start"
    /\ events' = events \o <<"thinking_step", "error">>
    /\ spc' = "done"
    /\ UNCHANGED <<s_signals, s_path, s_short_result, s_escalate, work, lp>>
    /\ UNCHANGED <<s_response, fvars, tvars, ovars, xvars_but_s, zvars>>

\* _stream_short_path_execution: a progress event, then
\* build_context_short_path, whose result is only counted; an exception
\* becomes a "Search error" progress event
StreamShortSearch ==
    /\ spc = "short_stream"
    /\ \E f \in RetrievalFaults \cup {"none"} :
          /\ work' = [work EXCEPT !.vector_searches = @ + SearchesIssued(f),
                                  !.text_searches = @ + SearchesIssued(f),
                                  !.search_errors = @ + (IF f = "none" THEN 0 ELSE 1)]
          /\ events' = events \o <<"thinking_step">>
                              \o (IF f = "none" THEN <<>> ELSE <<"thinking_step">>)
    /\ spc' = "short_run"
    /\ UNCHANGED <<s_signals, s_path, s_short_result, s_escalate, lp>>
    /\ UNCHANGED <<s_response, fvars, tvars, ovars, xvars_but_s, zvars>>

\* short_result = await run_short_path(query, config, document_id)
StreamRunShort ==
    /\ spc = "short_run"
    /\ \E ctx \in ShortContexts : \E flt \in ShortFaults \cup {"none"} :
          /\ s_short_result' = run_short_path(ctx, flt)
          /\ work' = [work EXCEPT !.vector_searches = @ + SearchesIssued(flt),
                                  !.text_searches = @ + SearchesIssued(flt),
                                  !.llm_calls = @ + LlmCallsIssued(flt)]
    /\ spc' = "short_decide"
    /\ UNCHANGED <<s_signals, s_path, s_escalate, events, lp>>
    /\ UNCHANGED <<s_response, fvars, tvars, ovars, xvars_but_s, zvars>>

\* if _should_escalate_from_short(short_result, signals, config): the LONG
\* path is streamed; else the SHORT answer is validated and yielded
StreamShortDecide ==
    /\ spc = "short_decide"
    /\ s_escalate' = should_escalate_from_short(s_short_result, s_signals, StreamConfig)
    /\ IF s_escalate'
       THEN events' = events /\ spc' = "long_plan" /\ s_response' = s_response
       ELSE /\ \E rq \in StreamRequests : s_response' = ValidatedResponses[rq]
            /\ events' = events \o <<"thinking_step", s_response'.type>>
            /\ spc' = "done"
    /\ UNCHANGED <<s_signals, s_path, s_short_result, work, lp>>
    /\ UNCHANGED <<fvars, tvars, ovars, xvars_but_s, zvars>>

\* _stream_long_path_execution up to the loop: subqueries = await
\* generate_subqueries(query, signals, config)
LongPlan ==
    /\ spc = "long_plan"
    /\ \E n \in 0..MaxSubqueries : lp' = [lp EXCEPT !.subqueries = n]
    /\ events' = events \o <<"thinking_step", "thinking_step">>
    /\ spc' = "long_loop"
    /\ UNCHANGED <<s_signals, s_path, s_short_result, s_escalate, work>>
    /\ UNCHANGED <<s_response, fvars, tvars, ovars, xvars_but_s, zvars>>

\* generate_subqueries raises: the except branch yields an error event
LongPlanRaises ==
    /\ spc = "long_plan"
    /\ lp' = [lp EXCEPT !.fault = "generate_subqueries"]
    /\ events' = events \o <<"thinking_step", "error">>
    /\ spc' = "done"
    /\ UNCHANGED <<s_signals, s_path, s_short_result, s_escalate, work>>
    /\ UNCHANGED <<s_response, fvars, tvars, ovars, xvars_but_s, zvars>>

\* mutant of LongEarlyExit: the exhausted budget is reported as an error
LongEarlyExit_raises ==
    /\ spc = "long_loop"
    /\ lp.i > 0 /\ lp.i < lp.subqueries
    /\ \E reason \in EarlyExitReasons :
          lp' = [lp EXCEPT !.early_exit = reason, !.checked = Append(@, lp.i + 1)]
    /\ events' = events \o <<"thinking_step", "error">>
    /\ spc' = "done"
    /\ UNCHANGED <<s_signals, s_path, s_short_result, s_escalate, work>>
    /\ UNCHANGED <<s_response, fvars, tvars, ovars, xvars_but_s, zvars>>

\* an iteration i > 0 whose early-exit check returns a reason: a progress
\* event and break
LongEarlyExit ==
    /\ spc = "long_loop"
    /\ lp.i > 0 /\ lp.i < lp.subqueries
    /\ \E reason \in EarlyExitReasons :
          lp' = [lp EXCEPT !.early_exit = reason, !.checked = Append(@, lp.i + 1)]
    /\ events' = events \o <<"thinking_step", "thinking_step">>
    /\ spc' = "long_synth"
    /\ UNCHANGED <<s_signals, s_path, s_short_result, s_escalate, work>>
    /\ UNCHANGED <<s_response, fvars, tvars, ovars, xvars_but_s, zvars>>

\* the early-exit checks made so far, with the one of iteration lp.i (the
\* subquery lp.i + 1), which is made for every iteration but the first
CheckedNow == IF lp.i > 0 THEN Append(lp.checked, lp.i + 1) ELSE lp.checked

\* mutant of LongSubquery: the context of the subquery is not appended
LongSubquery_dropsContext ==
    /\ spc = "long_loop"
    /\ lp.i < lp.subqueries
    /\ lp' = [lp EXCEPT !.i = @ + 1,
                        !.checked = CheckedNow,
                        !.executed_subqueries = Append(@, lp.i + 1)]
    /\ events' = events \o <<"thinking_step", "thinking_step">>
    /\ UNCHANGED <<spc, s_signals, s_path, s_short_result, s_escalate, work>>
    /\ UNCHANGED <<s_response, fvars, tvars, ovars, xvars_but_s, zvars>>

\* an iteration that runs its subquery: context = await execute_subquery(...),
\* contexts.append(context), executed_subqueries.append(subquery)
LongSubquery ==
    /\ spc = "long_loop"
    /\ lp.i < lp.subqueries
    /\ lp' = [lp EXCEPT !.i = @ + 1, !.contexts = @ + 1,
                        !.checked = CheckedNow,
                        !.executed_subqueries = Append(@, lp.i + 1),
                        !.evidence = Append(@, lp.i + 1)]
    /\ events' = events \o <<"thinking_step", "thinking_step">>
    /\ UNCHANGED <<spc, s_signals, s_path, s_short_result, s_escalate, work>>
    /\ UNCHANGED <<s_response, fvars, tvars, ovars, xvars_but_s, zvars>>

\* execute_subquery raises: the except branch yields an error event
LongSubqueryRaises ==
    /\ spc = "long_loop"
    /\ lp.i < lp.subqueries
    /\ lp' = [lp EXCEPT !.fault = "execute_subquery", !.checked = CheckedNow]
    /\ events' = events \o <<"thinking_step", "thinking_step", "error">>
    /\ spc' = "done"
    /\ UNCHANGED <<s_signals, s_path, s_short_result, s_escalate, work>>
    /\ UNCHANGED <<s_response, fvars, tvars, ovars, xvars_but_s, zvars>>

\* the loop is over (exhausted or left by break)
LoopOver == spc = "long_synth" \/ (spc = "long_loop" /\ lp.i = lp.subqueries)

\* final synthesis: answer = await synthesize_comprehensive_answer(...), then
\* thinking_complete and the validated response event
LongSynthesize ==
    /\ LoopOver
    /\ lp' = [lp EXCEPT !.synth_calls = @ + 1]
    /\ \E rq \in StreamRequests : s_response' = ValidatedResponses[rq]
    /\ events' = events \o <<"thinking_step", "thinking_complete",
                              s_response'.type>>
    /\ spc' = "done"
    /\ UNCHANGED <<s_signals, s_path, s_short_result, s_escalate, work>>
    /\ UNCHANGED <<fvars, tvars, ovars, xvars_but_s, zvars>>

\* synthesize_comprehensive_answer raises: the except branch yields an error event
LongSynthesizeRaises ==
    /\ LoopOver
    /\ lp' = [lp EXCEPT !.synth_calls = @ + 1, !.fault = "synthesize_comprehensive_answer"]
    /\ events' = events \o <<"thinking_step", "error">>
    /\ spc' = "done"
    /\ UNCHANGED <<s_signals, s_path, s_short_result, s_escalate, work>>
    /\ UNCHANGED <<s_response, fvars, tvars, ovars, xvars_but_s, zvars>>

StreamNext ==
    \/ StreamDocumentAnalysis \/ StreamDocumentAnalysisRaises
    \/ StreamMapReduce \/ StreamMapReduceRaises
    \/ StreamProbe \/ StreamProbeRaises \/ StreamShortSearch \/ StreamRunShort
    \/ StreamShortDecide \/ LongPlan \/ LongPlanRaises \/ LongEarlyExit
    \/ LongSubquery \/ LongSubqueryRaises \/ LongSynthesize \/ LongSynthesizeRaises

SpecStream == StreamInit /\ [][StreamNext]_vars

\* C18: when the early-exit check fires at an iteration boundary, the
\* remaining subqueries are skipped, synthesis runs exactly once over the
\* contexts gathered so far, and (no collaborator raising) the stream ends
\* in a normal answer; an exhausted budget alone never yields an error event.
C18_BudgetExitSynthesizes ==
    /\ lp.synth_calls <= 1
    /\ lp.early_exit # "None" =>
          /\ lp.contexts = lp.i /\ lp.i < lp.subqueries
          /\ spc \in {"long_synth", "done"}
          /\ spc = "done" =>
                /\ lp.synth_calls = 1
                /\ lp.fault \in {"none", "synthesize_comprehensive_answer"}
                /\ lp.fault = "none" =>
                      /\ s_response # NoResponse
                      /\ events[Len(events)] = s_response.type
                      /\ \A k \in DOMAIN events : events[k] # "error"
    /\ (\E k \in DOMAIN events : events[k] = "error") =>
          (lp.fault # "none" \/ s_path \notin {"SHORT", "LONG"})

\* the time budget ran out after the first of three subqueries: the two
\* others were skipped and the answer was synthesized
C18_Witness ==
    /\ spc = "done"
    /\ lp.early_exit = "time_budget"
    /\ lp.subqueries = 3 /\ lp.contexts = 1
    /\ lp.synth_calls = 1
    /\ events[Len(events)] = "response_complete"

\* C19: a request routed to SHORT that does not escalate performs exactly
\* one vector search, one text search and one LLM synthesis call (streaming
\* orchestrator, no collaborator failing).
C19_SingleRetrievalSingleSynthesis ==
    (/\ spc = "done" /\ s_path = "SHORT" /\ ~s_escalate
     /\ s_short_result.answer.kind = "short_answer"
     /\ work.search_errors = 0) =>
        /\ work.vector_searches = 1
        /\ work.text_searches = 1
        /\ work.llm_calls = 1

\* ------------------------------------------------------------------------
\* One search of a path execution against the store:
\* PostgresClient.execute_statement under @retry_database_operation, called
\* by a search function of run_short_path.
\* ------------------------------------------------------------------------
DatabaseMaxAttempts == 3

\* DATABASE_RETRY_CONFIG.retryable_error_categories
DatabaseRetryCategories == {"DATABASE_ERROR"}

\* RetryConfig.retryable_exceptions (default): the builtin classes
RetryableExceptions == {"builtins.TimeoutError", "builtins.ConnectionError", "builtins.OSError"}

\* the classes of utils.exceptions that create_database_error tests against:
\* the module's own TimeoutError and ConnectionError, which hide the builtins
AppTransientErrors == {"utils.exceptions.TimeoutError", "utils.exceptions.ConnectionError"}

\* what self.rds_client.execute_statement raises
StoreExceptions ==
    {"botocore.ClientError", "botocore.EndpointConnectionError",
     "botocore.ReadTimeoutError", "builtins.TimeoutError", "builtins.ConnectionError"}

NoException ==
    [class |-> "None", category |-> "None", retryable |-> FALSE, original |-> "None"]

DatabaseError(original_error, retryable) ==
    [class |-> "utils.exceptions.DatabaseError", category |-> "DATABASE_ERROR",
     retryable |-> retryable, original |-> original_error]

\* mutant of create_database_error: the builtin classes are tested
create_database_error_builtins(original_error) ==
    DatabaseError(original_error,
                  original_error \in {"builtins.TimeoutError", "builtins.ConnectionError"})

\* retryable = isinstance(original_error, (TimeoutError, ConnectionError))
create_database_error(original_error) ==
    DatabaseError(original_error, original_error \in AppTransientErrors)

is_retryable_error(error) ==
    IF error.class = "utils.exceptions.DatabaseError"
    THEN error.retryable /\ error.category \in DatabaseRetryCategories
    ELSE error.class \in RetryableExceptions

StoreInit ==
    /\ dpc = "call"
    /\ attempt = 0 /\ requests = 0 /\ delays = 0
    /\ outcomes \in [1..DatabaseMaxAttempts -> {"ok"} \cup StoreExceptions]
    /\ last_exception = NoException
    /\ search_result = "none"
    /\ FuseIdle /\ TruncIdle /\ OrchIdle /\ XIdle_but_d /\ ZIdle

\* one turn of the loop of sync_wrapper: func(*args, **kwargs) issues the
\* request; an exception leaves execute_statement as create_database_error(e)
\* and is re-raised, or followed by a sleep and the next turn
Attempt ==
    /\ dpc = "call"
    /\ attempt < DatabaseMaxAttempts
    /\ attempt' = attempt + 1
    /\ requests' = requests + 1
    /\ IF outcomes[attempt'] = "ok"
       THEN /\ dpc' = "returned"
            /\ UNCHANGED <<last_exception, delays>>
       ELSE /\ last_exception' = create_database_error(outcomes[attempt'])
            /\ IF ~is_retryable_error(last_exception')
               THEN dpc' = "raised" /\ delays' = delays
               ELSE IF attempt' = DatabaseMaxAttempts
                    THEN dpc' = "raised" /\ delays' = delays
                    ELSE dpc' = "call" /\ delays' = delays + 1
    /\ UNCHANGED <<outcomes, search_result>>
    /\ UNCHANGED <<fvars, tvars, ovars, xvars_but_d, zvars>>

\* the search function returns the rows it read
SearchReturns ==
    /\ dpc = "returned"
    /\ search_result' = "rows"
    /\ dpc' = "done"
    /\ UNCHANGED <<attempt, requests, outcomes, last_exception, delays>>
    /\ UNCHANGED <<fvars, tvars, ovars, xvars_but_d, zvars>>

\* the exception leaves the search and build_context_short_path; the except
\* branch of run_short_path returns ShortPathResult(success=False, ...)
PathFails ==
    /\ dpc = "raised"
    /\ search_result' = "failed_result"
    /\ dpc' = "done"
    /\ UNCHANGED <<attempt, requests, outcomes, last_exception, delays>>
    /\ UNCHANGED <<fvars, tvars, ovars, xvars_but_d, zvars>>

StoreNext == Attempt \/ SearchReturns \/ PathFails

SpecStore == StoreInit /\ [][StoreNext]_vars

ConflictOccurrences(context_text) ==
    Cardinality({pair \in (DOMAIN context_text) \X conflict_indicators :
                    InWord(pair[2], Lower(context_text[pair[1]]))})

\* the SHORT path succeeded and no other escalation condition holds
OnlyConflictsCanEscalate ==
    /\ Decided
    /\ short_result.success /\ short_result.context # None
    /\ short_result.debug_info.total_segments >= config.escalation.min_strong_segments
    /\ short_result.debug_info.total_docs <= config.escalation.max_distinct_docs
    /\ signals.avg_vec_sim >= config.escalation.min_avg_vec_sim
    /\ signals.fts_hit_rate >= config.escalation.min_fts_hit_rate

\* C21: the conflict heuristic fires exactly when the lower-cased context
\* text holds at least two occurrences, counted with multiplicity, of the
\* indicator words; two occurrences of the same word are enough.
C21_ConflictByOccurrences ==
    OnlyConflictsCanEscalate =>
        (escalate <=> ConflictOccurrences(short_result.context.context_text) >= 2)

\* ------------------------------------------------------------------------
\* _smart_truncate on its own: the hard-cut text response[:max_chars] and
\* what becomes of it.  Texts are sequences of runs as above.
\* ------------------------------------------------------------------------
MaxCutRuns == 3     \* most runs of a hard-cut text

CutRunLens == {1, 2, 8, 20}

RECURSIVE CutTextsOfRuns(_)
CutTextsOfRuns(k) ==
    IF k = 0 THEN {<<>>}
    ELSE {Append(t, r) : t \in CutTextsOfRuns(k - 1), r \in [ch : TxtChars, n : CutRunLens]}

\* response[:max_chars]: any text
HardCutTexts(max_runs) ==
    {t \in UNION {CutTextsOfRuns(k) : k \in 0..max_runs} :
        \A i \in 1..(Len(t) - 1) : t[i].ch # t[i + 1].ch}

CutInit ==
    /\ cpc = "input"
    /\ cut_text \in HardCutTexts(MaxCutRuns)
    /\ cut_result = <<>>
    /\ FuseIdle /\ TruncIdle /\ OrchIdle /\ XIdle /\ ZIdle_but_c

\* truncated = _smart_truncate(truncated)
SmartTruncate ==
    /\ cpc = "input"
    /\ cut_result' = smart_truncate(cut_text)
    /\ cpc' = "cut"
    /\ UNCHANGED cut_text
    /\ UNCHANGED <<fvars, tvars, ovars, xvars, zvars_but_c>>

CutNext == SmartTruncate

SpecCut == CutInit /\ [][CutNext]_vars

\* the ordered fallback as stated: sentence boundary when that discards at
\* most 20%, else the last paragraph break, else the last line break when
\* that discards at most 10%, else the last space
OrderedFallback(text) ==
    LET len            == TxtLen(text)
        last_period    == RFind(text, ".")
        last_paragraph == RFindParagraph(text)
        last_newline   == RFind(text, "\n")
        last_space     == RFind(text, " ")
    IN  IF last_period >= 0 /\ 10 * (len - (last_period + 1)) <= 2 * len
            THEN TxtPrefix(text, last_period + 1)
        ELSE IF last_paragraph >= 0
            THEN TxtPrefix(text, last_paragraph)
        ELSE IF last_newline >= 0 /\ 10 * (len - last_newline) <= len
            THEN TxtPrefix(text, last_newline)
        ELSE IF last_space >= 0
            THEN TxtPrefix(text, last_space)
        ELSE text

\* C23: _smart_truncate returns the cut of the ordered fallback (sentence
\* boundary within 20%, else paragraph break, else line break within 10%,
\* else last space): the cut lands just after the last '.' whenever one lies
\* in the last 20% of the text, and the result is a prefix of the input.
C23_OrderedFallback ==
    cpc = "cut" =>
        /\ cut_result = OrderedFallback(cut_text)
        /\ LET last_period == RFind(cut_text, ".")
           IN  (last_period >= 0 /\ 10 * last_period >= 8 * TxtLen(cut_text)) =>
                   cut_result = TxtPrefix(cut_text, last_period + 1)
        /\ cut_result = TxtPrefix(cut_text, TxtLen(cut_result))

\* ------------------------------------------------------------------------
\* The probe (compute_probe_signals) and the route decided on its signals.
\* Signals are in hundredths, rounded down; the counts they are computed
\* from are kept beside them, as in ProbeSignals.
\* ------------------------------------------------------------------------
MaxProbeDocs == 2   \* most documents the prefilter returns

\* AGENT_PROBE_CANDIDATES_PER_TYPE (3 when unset)
ProbeCandidateLimits == {0, 1, 2, 3}

\* similarity_score of a sampled vector candidate: a cosine distance, in hundredths
ProbeDistances == {20, 60}

\* what _detect_query_patterns returns for the query
QueryPatterns == [has_quotes_or_ids : BOOLEAN, has_compare_temporal : BOOLEAN]

SeqsUpTo(S, n) == UNION {[1..k -> S] : k \in 0..n}

\* the answers of a store holding n documents to a probe sampling at most
\* limit candidates of each type
ProbeStores(n, limit) ==
    [docs : {n},
     vector : SeqsUpTo([document_id : 1..n, similarity_score : ProbeDistances], limit),
     fts : SeqsUpTo(1..n, limit)]

\* Counter(c['document_id'] for c in all_candidates)
DocCounts(vector_candidates, fts_candidates) ==
    LET ids == {vector_candidates[i].document_id : i \in DOMAIN vector_candidates}
                   \cup {fts_candidates[i] : i \in DOMAIN fts_candidates}
    IN  [doc \in ids |->
            Cardinality({i \in DOMAIN vector_candidates :
                            vector_candidates[i].document_id = doc})
            + Cardinality({i \in DOMAIN fts_candidates : fts_candidates[i] = doc})]

RECURSIVE SumSimilarity(_)
\* sum(1 - c['similarity_score'] for c in vector_candidates)
SumSimilarity(cs) ==
    IF cs = <<>> THEN 0 ELSE (100 - cs[1].similarity_score) + SumSimilarity(Tail(cs))

\* mutant of TotalPossibleFts: the number of documents left out
TotalPossibleFts_perType(n, limit) == limit

\* total_possible_fts = len(doc_ids) * config.probe_candidates_per_type
TotalPossibleFts(n, limit) == n * limit

\* compute_probe_signals(query, config)
compute_probe_signals(patterns, st, limit) ==
    IF st.docs = 0
    THEN [avg_vec_sim |-> 0, fts_hit_rate |-> 0, top_doc_share |-> 100, unique_docs |-> 0,
          has_quotes_or_ids |-> patterns.has_quotes_or_ids,
          has_compare_temporal_conditions |-> patterns.has_compare_temporal,
          total_candidates |-> 0, vector_candidates |-> 0, fts_candidates |-> 0]
    ELSE LET doc_counts == DocCounts(st.vector, st.fts)
             total      == Len(st.vector) + Len(st.fts)
             top        == IF total = 0 THEN 0
                           ELSE CHOOSE c \in {doc_counts[doc] : doc \in DOMAIN doc_counts} :
                                    \A doc \in DOMAIN doc_counts : doc_counts[doc] <= c
         IN  [avg_vec_sim |->
                  IF st.vector = <<>> THEN 0
                  ELSE Max(0, Min(100, SumSimilarity(st.vector) \div Len(st.vector))),
              fts_hit_rate |->
                  (100 * Len(st.fts)) \div Max(1, TotalPossibleFts(st.docs, limit)),
              top_doc_share |-> IF total = 0 THEN 100 ELSE (100 * top) \div total,
              unique_docs |-> Cardinality(DOMAIN doc_counts),
              has_quotes_or_ids |-> patterns.has_quotes_or_ids,
              has_compare_temporal_conditions |-> patterns.has_compare_temporal,
              total_candidates |-> total,
              vector_candidates |-> Len(st.vector),
              fts_candidates |-> Len(st.fts)]

ProbeInit ==
    /\ qpc = "start"
    /\ probe_config \in ProbeCandidateLimits
    /\ probe_query \in QueryPatterns
    /\ probe_store \in UNION {ProbeStores(n, probe_config) : n \in 0..MaxProbeDocs}
    /\ probe_store.docs = 0 => (probe_store.vector = <<>> /\ probe_store.fts = <<>>)
    /\ probe_signals = NoSignals
    /\ probe_path = "none"
    /\ FuseIdle /\ TruncIdle /\ OrchIdle /\ XIdle /\ ZIdle_but_q

\* signals = compute_probe_signals(query, config)
ComputeProbeSignals ==
    /\ qpc = "start"
    /\ probe_signals' = compute_probe_signals(probe_query, probe_store, probe_config)
    /\ qpc' = "probed"
    /\ UNCHANGED <<probe_config, probe_query, probe_store, probe_path>>
    /\ UNCHANGED <<fvars, tvars, ovars, xvars, zvars_but_q>>

\* score = compute_routing_score(signals, config) and the route decision,
\* under DEFAULT_CONFIG
ProbeRoute ==
    /\ qpc = "probed"
    /\ probe_path' = IF RoutedShort(probe_signals, StreamConfig) THEN "SHORT" ELSE "LONG"
    /\ qpc' = "routed"
    /\ UNCHANGED <<probe_config, probe_query, probe_store, probe_signals>>
    /\ UNCHANGED <<fvars, tvars, ovars, xvars, zvars_but_q>>

ProbeNext == ComputeProbeSignals \/ ProbeRoute

SpecProbe == ProbeInit /\ [][ProbeNext]_vars

\* C22: when the prefilter returns no document the signals are
\* avg_vec_sim = 0, fts_hit_rate = 0, top_doc_share = 1.0, unique_docs = 0
\* with both pattern flags computed from the query, and with the default
\* weights and threshold the route decided on them is LONG for every query.
C22_EmptyStoreRoutesLong ==
    (qpc # "start" /\ probe_store.docs = 0) =>
        /\ probe_signals.avg_vec_sim = 0 /\ probe_signals.fts_hit_rate = 0
        /\ probe_signals.top_doc_share = 100 /\ probe_signals.unique_docs = 0
        /\ probe_signals.has_quotes_or_ids = probe_query.has_quotes_or_ids
        /\ probe_signals.has_compare_temporal_conditions = probe_query.has_compare_temporal
        /\ qpc = "routed" => probe_path = "LONG"

\* C28: with n >= 1 prefiltered documents and a store that honours the
\* sampling limit, 0 <= fts_hit_rate <= 1/n <= 1: at most
\* probe_candidates_per_type text hits over n * probe_candidates_per_type,
\* so the rate reaches 1 only when a single document is in scope.
C28_FtsHitRateBound ==
    (qpc # "start" /\ probe_store.docs >= 1) =>
        LET n   == probe_store.docs
            den == Max(1, n * probe_config)
        IN  /\ probe_signals.fts_candidates = Len(probe_store.fts)
            /\ probe_signals.fts_candidates <= probe_config
            /\ probe_signals.fts_candidates * n <= den
            /\ probe_signals.fts_hit_rate = (100 * probe_signals.fts_candidates) \div den
            /\ 0 <= probe_signals.fts_hit_rate
            /\ probe_signals.fts_hit_rate * n <= 100
            /\ probe_signals.fts_hit_rate = 100 => n = 1

\* two documents in scope and every sampled slot filled by a text hit: the
\* rate is 1/2
C28_Witness ==
    /\ qpc = "routed"
    /\ probe_store.docs = 2 /\ probe_config = 3
    /\ Len(probe_store.fts) = 3
    /\ probe_signals.fts_hit_rate = 50

\* ------------------------------------------------------------------------
\* Further properties of the streamed LONG path
\* ------------------------------------------------------------------------
\* C24: the subqueries run one at a time in generated order; the early-exit
\* check is made before every subquery but the first; the executed
\* subqueries are a prefix of the generated list, non-empty once the loop is
\* over with at least one subquery generated; one context is appended to the
\* evidence per executed subquery, in that order.
C24_SubqueriesInOrder ==
    LET executed == lp.executed_subqueries
    IN  /\ Len(executed) <= lp.subqueries
        /\ \A k \in DOMAIN executed : executed[k] = k
        /\ lp.evidence = executed
        /\ \A k \in DOMAIN lp.checked : lp.checked[k] = k + 1
        /\ \A k \in DOMAIN executed :
              k > 1 => \E c \in DOMAIN lp.checked : lp.checked[c] = k
        /\ (lp.subqueries >= 1 /\ (LoopOver \/ lp.synth_calls = 1)) => Len(executed) >= 1

\* three subqueries generated, two executed, the check before the third
\* ended the loop
C24_Witness ==
    /\ spc = "done"
    /\ lp.subqueries = 3
    /\ lp.executed_subqueries = <<1, 2>> /\ lp.evidence = <<1, 2>>
    /\ lp.checked = <<2, 3>>
    /\ lp.early_exit # "None" /\ lp.synth_calls = 1

\* ------------------------------------------------------------------------
\* Whole-document analysis (map_reduce_single_document).  A segment is its
\* ordinal; an extract is modelled by what _reduce_answers tests of it.
\* ------------------------------------------------------------------------
MaxSegments == 5    \* most segments of the document

\* chunk_size: 8 unless the caller passes another
ChunkSizes == {1, 2, 3, 8}

\* what a map call returns: a blank string, the agreed "No useful information
\* found", content, content that also holds the words "no useful
\* information", or the error text of a failed LLM call
ExtractKinds == {"blank", "no_useful_information", "content", "content_with_phrase", "error_text"}

\* info.strip() and "no useful information" not in info.lower()
IsRelevant(info) == info \notin {"blank", "no_useful_information", "content_with_phrase"}

RECURSIVE chunk_segments(_, _)
\* _chunk_segments(segments, chunk_size)
chunk_segments(segments, size) ==
    IF segments = <<>> THEN <<>>
    ELSE IF Len(segments) <= size THEN <<segments>>
    ELSE <<SubSeq(segments, 1, size)>>
            \o chunk_segments(SubSeq(segments, size + 1, Len(segments)), size)

MapReduceInit ==
    /\ mpc = "start"
    /\ \E n \in 0..MaxSegments : all_segments = [k \in 1..n |-> k]
    /\ chunk_size \in ChunkSizes
    /\ chunks = <<>> /\ extracted_info = <<>> /\ llm_log = <<>> /\ relevant_info = <<>>
    /\ m_result = "none"
    /\ FuseIdle /\ TruncIdle /\ OrchIdle /\ XIdle /\ ZIdle_but_m

\* the title and the segments are read; without segments the result is
\* "No content found in this document."; else the segments are chunked
ReadSegments ==
    /\ mpc = "start"
    /\ IF all_segments = <<>>
       THEN /\ m_result' = "no_content" /\ mpc' = "done"
            /\ UNCHANGED chunks
       ELSE /\ chunks' = chunk_segments(all_segments, chunk_size)
            /\ mpc' = "map"
            /\ UNCHANGED m_result
    /\ UNCHANGED <<all_segments, chunk_size, extracted_info, llm_log, relevant_info>>
    /\ UNCHANGED <<fvars, tvars, ovars, xvars, zvars_but_m>>

\* info = await _map_extract_answers(chunk, query); extracted_info.append(info)
MapExtract ==
    /\ mpc = "map"
    /\ \E info \in ExtractKinds :
          extracted_info' = Append(extracted_info, info)
    /\ llm_log' = Append(llm_log, <<"map", Len(extracted_info) + 1>>)
    /\ mpc' = IF Len(extracted_info) + 1 = Len(chunks) THEN "reduce" ELSE "map"
    /\ UNCHANGED <<all_segments, chunk_size, chunks, relevant_info, m_result>>
    /\ UNCHANGED <<fvars, tvars, ovars, xvars, zvars_but_m>>

\* final_answer = await _reduce_answers(extracted_info, query, document_title):
\* the filter, then the LLM call unless nothing is left; a failed call gives
\* "Unable to synthesize answer"
ReduceAnswers ==
    /\ mpc = "reduce"
    /\ relevant_info' = SelectSeq(extracted_info, IsRelevant)
    /\ IF relevant_info' = <<>>
       THEN /\ m_result' = "no_information"
            /\ UNCHANGED llm_log
       ELSE /\ llm_log' = Append(llm_log, <<"reduce", 0>>)
            /\ m_result' \in {"answer", "apology"}
    /\ mpc' = "done"
    /\ UNCHANGED <<all_segments, chunk_size, chunks, extracted_info>>
    /\ UNCHANGED <<fvars, tvars, ovars, xvars, zvars_but_m>>

MapReduceNext == ReadSegments \/ MapExtract \/ ReduceAnswers

SpecMapReduce == MapReduceInit /\ [][MapReduceNext]_vars

RECURSIVE Flatten(_)
Flatten(seqs) == IF seqs = <<>> THEN <<>> ELSE seqs[1] \o Flatten(Tail(seqs))

\* an extract that is not empty: neither blank nor the agreed
\* "No useful information found"
NonEmptyExtract(info) == info \notin {"blank", "no_useful_information"}

\* C25: the segments are split into consecutive chunks of chunk_size (the
\* last may be shorter) holding every segment once; one extraction call per
\* chunk in chunk order; after all of them one reduction step over exactly
\* the non-empty extracts; no LLM call for a document without segments.
C25_MapThenReduce ==
    /\ mpc \in {"map", "reduce", "done"} /\ all_segments # <<>> =>
          /\ Flatten(chunks) = all_segments
          /\ \A k \in DOMAIN chunks :
                Len(chunks[k]) = IF k < Len(chunks) THEN chunk_size
                                 ELSE Len(all_segments) - chunk_size * (Len(chunks) - 1)
          /\ \A k \in DOMAIN chunks : Len(chunks[k]) \in 1..chunk_size
          /\ \A k \in DOMAIN extracted_info : llm_log[k] = <<"map", k>>
          /\ Len(extracted_info) <= Len(chunks)
          /\ \A k \in DOMAIN llm_log :
                llm_log[k][1] = "reduce" => (k = Len(chunks) + 1 /\ k = Len(llm_log))
    /\ (mpc = "done" /\ all_segments # <<>>) =>
          /\ Len(extracted_info) = Len(chunks)
          /\ relevant_info = SelectSeq(extracted_info, NonEmptyExtract)
    /\ (mpc = "done" /\ all_segments = <<>>) =>
          llm_log = <<>> /\ m_result = "no_content"

\* ------------------------------------------------------------------------
\* The document scope of a request (checked under Spec)
\* ------------------------------------------------------------------------
\* C26: when smart_handle_message is called with a document_id, every
\* retrieval of the paths is restricted to that document, the LONG-path
\* retrieval after an escalation included.
C26_DocumentScopeKept ==
    document_id # "None" =>
        \A k \in DOMAIN retrievals : retrievals[k].document_id = document_id

\* ------------------------------------------------------------------------
\* The terminal event of a stream (checked under SpecStream)
\* ------------------------------------------------------------------------
TerminalTypes == {"response_complete", "error"}

\* C27: on every route and under every collaborator failure a finished run
\* of stream_smart_orchestration has yielded exactly one event whose type is
\* response_complete or error, and that event is the last of the stream.
C27_OneTerminalEvent ==
    spc = "done" =>
        /\ events # <<>>
        /\ events[Len(events)] \in TerminalTypes
        /\ Cardinality({k \in DOMAIN events : events[k] \in TerminalTypes}) = 1

\* ------------------------------------------------------------------------
\* The retry decorator: retry(config) around a function (sync_wrapper and
\* async_wrapper run the same loop), here with DATABASE_RETRY_CONFIG's
\* categories and any max_attempts.
\* ------------------------------------------------------------------------
MaxAttempts == 3  \* largest config.max_attempts

\* an exception of a builtin class
BuiltinError(class) ==
    [class |-> class, category |-> "None", retryable |-> FALSE, original |-> "None"]

\* what one invocation of the wrapped function does: it returns
\* (NoException) or raises one of these
FuncOutcomes ==
    { NoException,
      DatabaseError("botocore.ClientError", TRUE),
      DatabaseError("botocore.ClientError", FALSE),
      BuiltinError("builtins.TimeoutError"),
      BuiltinError("builtins.ValueError") }

RetryInit ==
    /\ wpc = "loop"
    /\ max_attempts \in 0..MaxAttempts
    /\ w_outcomes \in [1..max_attempts -> FuncOutcomes]
    /\ w_attempt = 1
    /\ w_log = <<>> /\ w_raised = 0
    /\ FuseIdle /\ TruncIdle /\ OrchIdle /\ XIdle /\ ZIdle_but_w

\* the turn of the loop that is due
InLoop == wpc = "loop" /\ w_attempt <= max_attempts

\* return func(*args, **kwargs)
WrapperReturns ==
    /\ InLoop
    /\ w_outcomes[w_attempt] = NoException
    /\ w_log' = Append(w_log, "invoke")
    /\ wpc' = "returned"
    /\ UNCHANGED <<max_attempts, w_outcomes, w_attempt, w_raised>>
    /\ UNCHANGED <<fvars, tvars, ovars, xvars, zvars_but_w>>

\* if not is_retryable_error(e, config): raise
WrapperRaisesNonRetryable ==
    /\ InLoop
    /\ w_outcomes[w_attempt] # NoException
    /\ ~is_retryable_error(w_outcomes[w_attempt])
    /\ w_log' = Append(w_log, "invoke")
    /\ w_raised' = w_attempt
    /\ wpc' = "raised"
    /\ UNCHANGED <<max_attempts, w_outcomes, w_attempt>>
    /\ UNCHANGED <<fvars, tvars, ovars, xvars, zvars_but_w>>

\* mutant of WrapperRetries: the test attempt == config.max_attempts is
\* missing, the last failure is slept on and raised after the loop
WrapperRetries_noLastAttemptTest ==
    /\ InLoop
    /\ w_outcomes[w_attempt] # NoException
    /\ is_retryable_error(w_outcomes[w_attempt])
    /\ w_log' = w_log \o <<"invoke", "sleep">>
    /\ w_attempt' = w_attempt + 1
    /\ UNCHANGED <<wpc, w_raised>>
    /\ UNCHANGED <<max_attempts, w_outcomes>>
    /\ UNCHANGED <<fvars, tvars, ovars, xvars, zvars_but_w>>

\* a retryable failure: raise if attempt == config.max_attempts, else
\* time.sleep(calculate_delay(attempt, config)) and the next turn
WrapperRetries ==
    /\ InLoop
    /\ w_outcomes[w_attempt] # NoException
    /\ is_retryable_error(w_outcomes[w_attempt])
    /\ IF w_attempt = max_attempts
       THEN /\ w_log' = Append(w_log, "invoke")
            /\ w_raised' = w_attempt
            /\ wpc' = "raised"
            /\ w_attempt' = w_attempt
       ELSE /\ w_log' = w_log \o <<"invoke", "sleep">>
            /\ w_attempt' = w_attempt + 1
            /\ UNCHANGED <<wpc, w_raised>>
    /\ UNCHANGED <<max_attempts, w_outcomes>>
    /\ UNCHANGED <<fvars, tvars, ovars, xvars, zvars_but_w>>

\* the loop is over without a return or a raise: raise last_exception, which
\* is None when range(1, max_attempts + 1) was empty
WrapperFallsThrough ==
    /\ wpc = "loop" /\ w_attempt > max_attempts
    /\ w_raised' = w_attempt - 1
    /\ wpc' = "raised"
    /\ UNCHANGED <<max_attempts, w_outcomes, w_attempt, w_log>>
    /\ UNCHANGED <<fvars, tvars, ovars, xvars, zvars_but_w>>

RetryNext ==
    \/ WrapperReturns \/ WrapperRaisesNonRetryable \/ WrapperRetries
    \/ WrapperFallsThrough

SpecRetry == RetryInit /\ [][RetryNext]_vars

\* invocations of the wrapped function so far
Invocations == Cardinality({k \in DOMAIN w_log : w_log[k] = "invoke"})

\* the wrapper has returned or raised
WrapperDone == wpc \in {"returned", "raised"}

\* C29: with max_attempts >= 1 the function is invoked at least once and at
\* most max_attempts times; a success returns at once, a non-retryable
\* exception is re-raised at once, a retryable one is followed by a delay and
\* another attempt only while attempts remain, and after max_attempts
\* retryable failures the last exception is re-raised with no delay after
\* the final attempt.
C29_RetryLoop ==
    (wpc # "idle" /\ max_attempts >= 1) =>
        /\ Invocations <= max_attempts
        /\ \A k \in DOMAIN w_log : w_log[k] = (IF k % 2 = 1 THEN "invoke" ELSE "sleep")
        /\ \A j \in 1..(Invocations - 1) :
              w_outcomes[j] # NoException /\ is_retryable_error(w_outcomes[j])
        /\ ~WrapperDone => Len(w_log) = 2 * (w_attempt - 1)
        /\ WrapperDone =>
              /\ Invocations >= 1
              /\ w_log[Len(w_log)] = "invoke"
              /\ wpc = "returned" <=> w_outcomes[Invocations] = NoException
              /\ wpc = "raised" =>
                    /\ w_raised = Invocations
                    /\ \/ ~is_retryable_error(w_outcomes[Invocations])
                       \/ Invocations = max_attempts

\* three retryable failures with max_attempts = 3: three invocations, two
\* sleeps between them, the third failure re-raised
C29_Witness ==
    /\ wpc = "raised" /\ max_attempts = 3
    /\ w_log = <<"invoke", "sleep", "invoke", "sleep", "invoke">>
    /\ w_raised = 3
    /\ is_retryable_error(w_outcomes[3])

\* ------------------------------------------------------------------------
\* CircuitBreaker: one breaker, its clock and the calls made through it
\* ------------------------------------------------------------------------
MaxThreshold == 3  \* largest failure_threshold
MaxTime == 4       \* the clock stops here
MaxFailures == 5   \* no call is made beyond this failure_count

\* recovery_timeout, in ticks of the clock
RecoveryTimeouts == {0, 2}

\* what func does when it is invoked: it returns, raises an instance of
\* expected_exception, or raises something else
FuncResults == {"returns", "expected_exception", "other_exception"}

NoCall == [state |-> "none", elapsed |-> 0, invoked |-> FALSE,
           gate |-> "none", result |-> "none"]

\* CircuitBreaker(failure_threshold, recovery_timeout, expected_exception)
BreakerInit ==
    /\ cb_config \in [failure_threshold : 1..MaxThreshold,
                      recovery_timeout : RecoveryTimeouts]
    /\ cb_state = "CLOSED"
    /\ failure_count = 0
    /\ last_failure_time = 0
    /\ now \in 0..1
    /\ last_call = NoCall
    /\ FuseIdle /\ TruncIdle /\ OrchIdle /\ XIdle /\ ZIdle_but_b

\* time passes between two calls
Tick ==
    /\ now < MaxTime
    /\ now' = now + 1
    /\ UNCHANGED <<cb_config, cb_state, failure_count, last_failure_time, last_call>>
    /\ UNCHANGED <<fvars, tvars, ovars, xvars, zvars_but_b>>

\* the first lines of call(): an OPEN breaker becomes HALF_OPEN once
\* recovery_timeout has passed since the last failure, else the call is refused
Gate ==
    IF cb_state = "OPEN"
    THEN IF now - last_failure_time >= cb_config.recovery_timeout
         THEN "HALF_OPEN" ELSE "refused"
    ELSE cb_state

\* mutant of on_success: the failure count is kept
on_success_keepsCount ==
    [failure_count |-> failure_count, state |-> "CLOSED",
     last_failure_time |-> last_failure_time]

\* _on_success
on_success ==
    [failure_count |-> 0, state |-> "CLOSED", last_failure_time |-> last_failure_time]

\* _on_failure; the state stays what the gate left when the count is below
\* the threshold
on_failure ==
    [failure_count |-> failure_count + 1,
     state |-> IF failure_count + 1 >= cb_config.failure_threshold THEN "OPEN" ELSE Gate,
     last_failure_time |-> now]

\* an exception that is not an expected_exception: no handler runs
on_other_exception ==
    [failure_count |-> failure_count, state |-> Gate,
     last_failure_time |-> last_failure_time]

\* call(func): refused, or func is invoked and its result handled
call(result) ==
    /\ failure_count < MaxFailures
    /\ LET after == IF Gate = "refused"
                    THEN [failure_count |-> failure_count, state |-> cb_state,
                          last_failure_time |-> last_failure_time]
                    ELSE IF result = "returns" THEN on_success
                    ELSE IF result = "expected_exception" THEN on_failure
                    ELSE on_other_exception
       IN  /\ cb_state' = after.state
           /\ failure_count' = after.failure_count
           /\ last_failure_time' = after.last_failure_time
    /\ last_call' = [state |-> cb_state, elapsed |-> now - last_failure_time,
                     invoked |-> Gate # "refused", gate |-> Gate,
                     result |-> IF Gate = "refused" THEN "Circuit breaker is OPEN"
                                ELSE result]
    /\ UNCHANGED <<cb_config, now>>
    /\ UNCHANGED <<fvars, tvars, ovars, xvars, zvars_but_b>>

BreakerNext ==
    \/ Tick
    \/ \E result \in FuncResults : call(result)

SpecBreaker == BreakerInit /\ [][BreakerNext]_vars

\* C30: the state is CLOSED exactly while failure_count < failure_threshold;
\* a call on an OPEN breaker less than recovery_timeout after the last
\* failure raises without invoking the function; the first call once
\* recovery_timeout has passed makes it HALF_OPEN and invokes the function;
\* from there one expected failure re-opens the breaker and one success
\* closes it with failure_count back to 0.
C30_BreakerStates ==
    cb_state # "idle" =>
        /\ cb_state \in {"CLOSED", "OPEN", "HALF_OPEN"}
        /\ cb_state = "CLOSED" <=> failure_count < cb_config.failure_threshold
        /\ (last_call.state = "OPEN" /\ last_call.elapsed < cb_config.recovery_timeout) =>
              /\ ~last_call.invoked
              /\ last_call.result = "Circuit breaker is OPEN"
              /\ cb_state = "OPEN"
        /\ (last_call.state = "OPEN" /\ last_call.elapsed >= cb_config.recovery_timeout) =>
              /\ last_call.invoked
              /\ last_call.gate = "HALF_OPEN"
        /\ (last_call.gate = "HALF_OPEN" /\ last_call.result = "expected_exception") =>
              cb_state = "OPEN"
        /\ (last_call.invoked /\ last_call.result = "returns") =>
              cb_state = "CLOSED" /\ failure_count = 0
        /\ last_call.state = "CLOSED" => last_call.invoked

\* a breaker of threshold 2 that opened, was called again after the recovery
\* timeout and closed on the success of that call
C30_Witness ==
    /\ cb_config = [failure_threshold |-> 2, recovery_timeout |-> 2]
    /\ last_call.state = "OPEN" /\ last_call.gate = "HALF_OPEN"
    /\ last_call.elapsed >= 2
    /\ last_call.result = "returns"
    /\ cb_state = "CLOSED" /\ failure_count = 0
====
